---- MODULE Spec2Model ----
(***************************************************************************)
(* Resume-vacancy matching engine of career-assistant                      *)
(* (src/services/resume_vacancy_matcher.py).                               *)
(*                                                                         *)
(* Conventions of the model                                                *)
(*  - a Python str is the sequence of its Unicode code points;             *)
(*  - a Python value is a tagged record: Missing (key absent from a dict), *)
(*    None, Str(s), Num(n), List(l);                                       *)
(*  - a Python float is a rational <<n, d>> in lowest terms, d > 0; sums,  *)
(*    products and quotients are exact, math.sqrt rounds its result to the *)
(*    nearest point of a grid (FloatGrid-ths) that stands for the float    *)
(*    grid, so that a root that is not exact is slightly off, as in Python;*)
(*  - list(set) has no specified order: every enumeration of the set is a  *)
(*    possible outcome.                                                    *)
(***************************************************************************)
EXTENDS Integers, Sequences, FiniteSets, TLC

VARIABLES
    capability,   \* "present" iff the GigaChat library is importable and GIGACHAT_TOKEN is set
    resume,       \* the resume dict handed to the matcher
    vacancy,      \* the vacancy dict handed to the matcher
    prefs_text,   \* the prefs_text argument
    weights,      \* the weights argument
    embedded,     \* what the embedding endpoint answered to the two embed calls
    result,       \* the value returned by the last call
    pc,           \* "ready" before the call, the name of the finished call after it
    module_globals, \* the module-level objects WEIGHTS and _NEGATIVE_TRIGGERS
    parse_text,   \* the text handed to parse_resume or parse_vacancy
    extraction,   \* what the extraction capability did in the last parse call
    calls,        \* the frames of the match calls that run interleaved
    sub_scores,   \* the four sub-scores of the two runs whose final scores are compared
    store,        \* the entries of the Chroma collection of resumes, in the order added
    index_call,   \* the arguments of the last index_resume_if_needed call, and how many
                  \* calls were made
    conv_state, \* the state of the chat's conversation in the ConversationHandler
    user_data, \* context.user_data of the chat
    entered_by, \* the menu button that opened the dialogue under way
    sent, \* the messages the last handler sent to the user
    handler_log \* the parse and match calls the last hh_resume run made

vars ==
    <<capability, resume, vacancy, prefs_text, weights, embedded, result, pc,
      module_globals, parse_text, extraction, calls, sub_scores, store, index_call,
      conv_state, user_data, entered_by, sent, handler_log>>

----------------------------------------------------------------------------
(* Bounds of the model *)

\* longest skill list drawn for the calls of _skill_score
MaxSkills == 2

\* number of match calls that run interleaved
NumCalls == 2

\* math.sqrt returns multiples of 1/FloatGrid
FloatGrid == 256

----------------------------------------------------------------------------
(* Python values *)

Missing == [t |-> "missing"]
None == [t |-> "none"]
Str(s) == [t |-> "str", v |-> s]
Num(n) == [t |-> "num", v |-> n]
List(l) == [t |-> "list", v |-> l]
Dict(d) == [t |-> "dict", n |-> 1, v |-> d]
EmptyDict == [t |-> "dict", n |-> 0]

\* bool(x) of Python
Truthy(x) ==
    CASE x.t = "missing" -> FALSE
      [] x.t = "none" -> FALSE
      [] x.t = "str" -> x.v # <<>>
      [] x.t = "list" -> x.v # <<>>
      [] x.t = "num" -> x.v # 0
      [] x.t = "dict" -> x.n # 0
      [] OTHER -> TRUE

\* d.get(k): a key that is absent reads as None
Get(d, k) == IF d[k].t = "missing" THEN None ELSE d[k]

\* d.get(k, default)
GetOr(d, k, default) == IF d[k].t = "missing" THEN default ELSE d[k]

Range(s) == {s[i] : i \in DOMAIN s}

\* the sequences that enumerate the set S once each: the outcomes of list(S)
ListsOf(S) ==
    LET n == Cardinality(S)
    IN  {s \in [1..n -> S] : Range(s) = S}

----------------------------------------------------------------------------
(* Exact arithmetic standing for Python floats *)

RECURSIVE GCD(_, _)
GCD(a, b) == IF b = 0 THEN a ELSE GCD(b, a % b)

Abs(n) == IF n < 0 THEN -n ELSE n

\* the rational n/d in lowest terms with a positive denominator
Rat(n, d) ==
    LET g == GCD(Abs(n), Abs(d))
        s == IF d < 0 THEN -1 ELSE 1
    IN  <<(s * n) \div g, (s * d) \div g>>

Zero == <<0, 1>>
One == <<1, 1>>

\* sum, product and order of rationals; common factors are cancelled before
\* multiplying, to keep the intermediate integers small
RAdd(p, q) ==
    LET g == GCD(p[2], q[2])
    IN  Rat(p[1] * (q[2] \div g) + q[1] * (p[2] \div g), (p[2] \div g) * q[2])

RMul(p, q) ==
    LET g1 == GCD(Abs(p[1]), q[2])
        g2 == GCD(Abs(q[1]), p[2])
    IN  IF p[1] = 0 \/ q[1] = 0 THEN <<0, 1>>
        ELSE Rat((p[1] \div g1) * (q[1] \div g2), (p[2] \div g2) * (q[2] \div g1))

RLess(p, q) ==
    LET g == GCD(p[2], q[2])
    IN  p[1] * (q[2] \div g) < q[1] * (p[2] \div g)

RLeq(p, q) == ~RLess(q, p)

\* max(a, b) of Python: b only when b > a
RMax(p, q) == IF RLess(p, q) THEN q ELSE p

\* round(x, 3): the nearest multiple of 1/1000, a tie going to the even one
Round3(q) ==
    LET num == 1000 * q[1]
        k == num \div q[2]
        r == num - k * q[2]
    IN  IF 2 * r < q[2] THEN Rat(k, 1000)
        ELSE IF 2 * r > q[2] THEN Rat(k + 1, 1000)
        ELSE IF k % 2 = 0 THEN Rat(k, 1000)
        ELSE Rat(k + 1, 1000)

RDiv(p, q) == Rat(p[1] * q[2], p[2] * q[1])

\* the largest k in lo..hi with k * k <= n
RECURSIVE Bisect(_, _, _)
Bisect(lo, hi, n) ==
    IF lo = hi THEN lo
    ELSE LET mid == (lo + hi + 1) \div 2
         IN  IF mid * mid <= n THEN Bisect(mid, hi, n) ELSE Bisect(lo, mid - 1, n)

ISqrt(n) == Bisect(0, IF n < 46340 THEN n ELSE 46340, n)

\* math.sqrt(n) for an integer n >= 0: exact when n is a square, otherwise the
\* multiple of 1/FloatGrid nearest to the root
Sqrt(n) ==
    LET r == ISqrt(n)
    IN  IF r * r = n THEN <<r, 1>>
        ELSE LET big == n * FloatGrid * FloatGrid
                 k == ISqrt(big)
             IN  IF big - k * k > k THEN Rat(k + 1, FloatGrid) ELSE Rat(k, FloatGrid)

----------------------------------------------------------------------------
(* Text *)

\* str.lower() on one code point: Latin A-Z, Cyrillic A-YA and IO
LowerChar(c) ==
    IF c >= 65 /\ c <= 90 THEN c + 32
    ELSE IF c >= 1040 /\ c <= 1071 THEN c + 32
    ELSE IF c = 1025 THEN 1105
    ELSE c

\* s.lower()
Lower(s) == [i \in DOMAIN s |-> LowerChar(s[i])]

python == <<112, 121, 116, 104, 111, 110>>
Python == <<80, 121, 116, 104, 111, 110>>
sql == <<115, 113, 108>>
docker == <<100, 111, 99, 107, 101, 114>>
frontend == <<102, 114, 111, 110, 116, 101, 110, 100>>
Frontend == <<70, 114, 111, 110, 116, 101, 110, 100>>
\* "frontend" in Russian, "front-end" with U+2011, "front_end"
frontend_ru == <<1092, 1088, 1086, 1085, 1090, 1077, 1085, 1076>>
front_end_hyphen == <<102, 114, 111, 110, 116, 8209, 101, 110, 100>>
front_end_underscore == <<102, 114, 111, 110, 116, 95, 101, 110, 100>>
\* the sentinels "net" (Russian), "none", "no"
net_ru == <<1085, 1077, 1090>>
none_en == <<110, 111, 110, 101>>
no_en == <<110, 111>>
\* "ne hochu frontend" (Russian): "don't want frontend"
ne_hochu_frontend ==
    <<1085, 1077, 32, 1093, 1086, 1095, 1091, 32,
      1092, 1088, 1086, 1085, 1090, 1077, 1085, 1076>>
remote == <<114, 101, 109, 111, 116, 101>>
Remote == <<82, 101, 109, 111, 116, 101>>
fullDay == <<102, 117, 108, 108, 68, 97, 121>>
noExperience == <<110, 111, 69, 120, 112, 101, 114, 105, 101, 110, 99, 101>>
between1And3 == <<98, 101, 116, 119, 101, 101, 110, 49, 65, 110, 100, 51>>
between3And6 == <<98, 101, 116, 119, 101, 101, 110, 51, 65, 110, 100, 54>>
moreThan6 == <<109, 111, 114, 101, 84, 104, 97, 110, 54>>
senior == <<115, 101, 110, 105, 111, 114>>

\* str.isspace() on one code point (what \s, strip() and split() take as blank)
IsSpace(c) ==
    \/ c \in 9..13
    \/ c \in 28..32
    \/ c \in {133, 160, 5760, 8232, 8233, 8239, 8287, 12288}
    \/ c \in 8192..8202

\* s.strip()
Strip(s) ==
    IF \A i \in DOMAIN s : IsSpace(s[i]) THEN <<>>
    ELSE LET lo == CHOOSE i \in DOMAIN s :
                       ~IsSpace(s[i]) /\ \A j \in 1..(i - 1) : IsSpace(s[j])
             hi == CHOOSE i \in DOMAIN s :
                       ~IsSpace(s[i]) /\ \A j \in (i + 1)..Len(s) : IsSpace(s[j])
         IN  SubSeq(s, lo, hi)

\* s.replace(a, b) for single characters a, b
ReplaceChar(s, a, b) == [i \in DOMAIN s |-> IF s[i] = a THEN b ELSE s[i]]

\* set(s.split()): the maximal runs of non-blank characters
SplitSet(s) ==
    LET starts == {a \in DOMAIN s : ~IsSpace(s[a]) /\ (a = 1 \/ IsSpace(s[a - 1]))}
        EndOf(a) ==
            CHOOSE b \in a..Len(s) :
                /\ \A i \in a..b : ~IsSpace(s[i])
                /\ (b = Len(s) \/ IsSpace(s[b + 1]))
    IN  {SubSeq(s, a, EndOf(a)) : a \in starts}

\* pat occurs in text at position i
StartsAt(text, i, pat) ==
    /\ i + Len(pat) - 1 <= Len(text)
    /\ \A j \in 1..Len(pat) : text[i + j - 1] = pat[j]

\* pat in text
Contains(text, pat) == \E i \in 1..(Len(text) - Len(pat) + 1) : StartsAt(text, i, pat)

----------------------------------------------------------------------------
(* Configuration *)

\* WEIGHTS
WEIGHTS ==
    [skills |-> Rat(60, 100), experience |-> Rat(15, 100),
     schedule |-> Rat(15, 100), prefs |-> Rat(10, 100)]

EMBEDDING_DIM == 1024

----------------------------------------------------------------------------
(* Cosine similarity and embeddings *)

\* sum of f[lo..hi], by halves
RECURSIVE SumRange(_, _, _)
SumRange(f, lo, hi) ==
    IF lo > hi THEN 0
    ELSE IF lo = hi THEN f[lo]
    ELSE LET mid == (lo + hi) \div 2
         IN  SumRange(f, lo, mid) + SumRange(f, mid + 1, hi)

Dot(a, b) == SumRange([i \in DOMAIN a |-> a[i] * b[i]], 1, Len(a))

_cosine(a, b) ==
    IF a = <<>> \/ b = <<>> \/ Len(a) # Len(b) THEN Zero
    ELSE LET dot == Dot(a, b)
             na == Sqrt(Dot(a, a))
             nb == Sqrt(Dot(b, b))
         IN  IF na # Zero /\ nb # Zero THEN RDiv(<<dot, 1>>, RMul(na, nb)) ELSE Zero

\* [0.0] * EMBEDDING_DIM and [1.0] * EMBEDDING_DIM
ZeroVector == [i \in 1..EMBEDDING_DIM |-> 0]
FlatVector == [i \in 1..EMBEDDING_DIM |-> 1]

\* What one call of the embedding endpoint can do: raise, or answer a vector.
\* The answers are integer vectors: one of the endpoint's dimension (the flat
\* vector's opposite), three short ones, <<2, 3>> with a norm that is no
\* integer, and the empty list.
EmbedOutcomes == {"raise", "opposite", "e10", "e34", "e23", "empty"}

OppositeVector == [i \in 1..EMBEDDING_DIM |-> -1]

embed_query(o) ==
    CASE o = "opposite" -> OppositeVector
      [] o = "e10" -> <<1, 0>>
      [] o = "e34" -> <<3, 4>>
      [] o = "e23" -> <<2, 3>>
      [] o = "empty" -> <<>>

\* _embed_skills whose fallback is the zero vector
_embed_skills_zero_fallback(skills, cap, o) ==
    IF skills = <<>> THEN ZeroVector
    ELSE IF cap = "present" /\ o # "raise" THEN embed_query(o)
    ELSE ZeroVector

\* _embed_skills(skills) where the endpoint, if it is called, does o
_embed_skills(skills, cap, o) ==
    IF skills = <<>> THEN ZeroVector
    ELSE IF cap = "present" /\ o # "raise" THEN embed_query(o)
    ELSE FlatVector

\* the vectors a call of _cosine can be given, and their similarities, computed once
EmbedVectors ==
    {ZeroVector, FlatVector} \cup {embed_query(o) : o \in EmbedOutcomes \ {"raise"}}

CosineTable == {<<a, b, _cosine(a, b)>> : a \in EmbedVectors, b \in EmbedVectors}

CosineOf(a, b) == (CHOOSE x \in CosineTable : x[1] = a /\ x[2] = b)[3]

----------------------------------------------------------------------------
(* Skill matching *)

\* what the endpoint can do for one _skill_score call: it is called, once per
\* list, only when both lists are non-empty and the capability is configured
EndpointOutcomes(cap, resume_skills, vacancy_skills) ==
    IF cap = "present" /\ Truthy(resume_skills) /\ Truthy(vacancy_skills)
    THEN EmbedOutcomes
    ELSE {"not_called"}

\* {s.lower() for s in skills}
LowerSet(skills) == {Lower(s) : s \in Range(skills)}

\* the empty branch returning an empty missing list
EmptySkillResult_nothing_missing(vacancy_skills) ==
    [score |-> Zero, matched |-> List(<<>>), missing |-> List(<<>>)]

\* what _skill_score returns when a list is empty
EmptySkillResult(vacancy_skills) ==
    [score |-> Zero, matched |-> List(<<>>), missing |-> vacancy_skills]

\* len(matched) / len(vacancy_set) if vacancy_set else 0.0
literal_ratio(matched, vacancy_set) ==
    IF vacancy_set # {}
    THEN Rat(Cardinality(matched), Cardinality(vacancy_set))
    ELSE Zero

\* the similarity of the two embeddings
cosine_ratio(resume_set, vacancy_set, cap, o_r, o_v) ==
    CosineOf(_embed_skills(CHOOSE l \in ListsOf(resume_set) : TRUE, cap, o_r),
             _embed_skills(CHOOSE l \in ListsOf(vacancy_set) : TRUE, cap, o_v))

\* min in place of max, and the literal ratio left out
SkillScoreOf_min(literal, cosine) == IF RLess(cosine, literal) THEN cosine ELSE literal

SkillScoreOf_cosine_only(literal, cosine) == cosine

\* score = max(literal_ratio, cosine_ratio)
SkillScoreOf(literal, cosine) == RMax(literal, cosine)

\* the matched skills not taken out of the missing ones
MissingOf_all(vacancy_set, matched) == vacancy_set

\* vacancy_set - matched
MissingOf(vacancy_set, matched) == vacancy_set \ matched

\* _skill_score(resume_skills, vacancy_skills): the set of values it can return
\* when the endpoint does o_r for the resume list and o_v for the vacancy list
_skill_score(resume_skills, vacancy_skills, cap, o_r, o_v) ==
    IF ~Truthy(resume_skills) \/ ~Truthy(vacancy_skills)
    THEN {EmptySkillResult(vacancy_skills)}
    ELSE LET resume_set == LowerSet(resume_skills.v)
             vacancy_set == LowerSet(vacancy_skills.v)
             matched == resume_set \cap vacancy_set
             score ==
                 SkillScoreOf(literal_ratio(matched, vacancy_set),
                              cosine_ratio(resume_set, vacancy_set, cap, o_r, o_v))
         IN  {[score |-> score, matched |-> List(m), missing |-> List(x)] :
                 m \in ListsOf(matched), x \in ListsOf(MissingOf(vacancy_set, matched))}

----------------------------------------------------------------------------
(* Preferences handling *)

\* _NEGATIVE_TRIGGERS: "ne hochu", "ne interesuet", "ne zanimayus",
\* "ne hotelos by", "ne beru", "ne nuzhen", "bez" (Russian)
_NEGATIVE_TRIGGERS ==
    {<<1085, 1077, 32, 1093, 1086, 1095, 1091>>,
     <<1085, 1077, 32, 1080, 1085, 1090, 1077, 1088, 1077, 1089, 1091, 1077, 1090>>,
     <<1085, 1077, 32, 1079, 1072, 1085, 1080, 1084, 1072, 1102, 1089, 1100>>,
     <<1085, 1077, 32, 1093, 1086, 1090, 1077, 1083, 1086, 1089, 1100, 32, 1073, 1099>>,
     <<1085, 1077, 32, 1073, 1077, 1088, 1091>>,
     <<1085, 1077, 32, 1085, 1091, 1078, 1077, 1085>>,
     <<1073, 1077, 1079>>}

\* the module-level objects as the import of the module leaves them
ModuleGlobals == [WEIGHTS |-> WEIGHTS, _NEGATIVE_TRIGGERS |-> _NEGATIVE_TRIGGERS]

\* context.user_data of a chat that has not talked to the bot yet
NoUserData ==
    [is_auto_apply |-> FALSE, filled |-> {}, prefs |-> Missing, resume |-> Missing]

\* no parse call and no interleaved match call is under way, the index is empty
\* and the chat has not talked to the bot
NoOtherCalls ==
    /\ module_globals = ModuleGlobals
    /\ parse_text = None
    /\ extraction = "not_called"
    /\ calls = <<>>
    /\ sub_scores = <<>>
    /\ store = <<>>
    /\ index_call = [n |-> 0]
    /\ conv_state = "END"
    /\ user_data = NoUserData
    /\ entered_by = "none"
    /\ sent = <<>>
    /\ handler_log = <<>>

\* the character class [a-z<Cyrillic a-ya>0-9+\-#._ ] of the pattern
InClass(c) ==
    \/ c \in 97..122
    \/ c \in 1072..1103
    \/ c \in 48..57
    \/ c \in {43, 45, 35, 46, 95, 32}

\* how many blank characters, and how many characters of the class, follow from p
SpaceRun(text, p) ==
    LET stop == {q \in p..(Len(text) + 1) : q = Len(text) + 1 \/ ~IsSpace(text[q])}
    IN  (CHOOSE q \in stop : \A r \in stop : q <= r) - p

ClassRun(text, p) ==
    LET stop == {q \in p..(Len(text) + 1) : q = Len(text) + 1 \/ ~InClass(text[q])}
    IN  (CHOOSE q \in stop : \A r \in stop : q <= r) - p

\* The match of  trig\s+([class]{2,})  that starts at position i, if there is one:
\* \s+ takes as many blanks as leave two characters of the class after it, and the
\* group then takes every character of the class that follows.
MatchAt(text, trig, i) ==
    LET p == i + Len(trig)
        ks == {k \in 1..SpaceRun(text, p) : ClassRun(text, p + k) >= 2}
    IN  IF StartsAt(text, i, trig) /\ ks # {}
        THEN LET k == CHOOSE x \in ks : \A y \in ks : y <= x
                 n == ClassRun(text, p + k)
             IN  [found |-> TRUE, group |-> SubSeq(text, p + k, p + k + n - 1),
                  end |-> p + k + n]
        ELSE [found |-> FALSE]

\* set(re.findall(pattern, text)), scanning from position i: matches do not overlap
RECURSIVE FindAll(_, _, _)
FindAll(text, trig, i) ==
    IF i > Len(text) THEN {}
    ELSE LET m == MatchAt(text, trig, i)
         IN  IF m.found THEN {m.group} \cup FindAll(text, trig, m.end)
             ELSE FindAll(text, trig, i + 1)

\* every word of the preferences taken as a negative keyword
NegKeywords_every_word(lowered_prefs) ==
    {token \in SplitSet(ReplaceChar(lowered_prefs, 44, 32)) : Len(token) >= 3}

\* the negative keywords without the frontend words
NegKeywords_from_triggers_only(lowered_prefs) ==
    UNION {UNION {{token \in SplitSet(ReplaceChar(match, 44, 32)) : Len(token) >= 3} :
                     match \in FindAll(lowered_prefs, trig, 1)} :
              trig \in {t \in _NEGATIVE_TRIGGERS : Contains(lowered_prefs, t)}}

\* the negative keywords read from the lowered preferences
NegKeywords(lowered_prefs) ==
    LET from_triggers ==
            UNION {UNION {{token \in SplitSet(ReplaceChar(match, 44, 32)) : Len(token) >= 3} :
                             match \in FindAll(lowered_prefs, trig, 1)} :
                      trig \in {t \in _NEGATIVE_TRIGGERS : Contains(lowered_prefs, t)}}
        frontend_words ==
            IF Contains(lowered_prefs, frontend_ru) \/ Contains(lowered_prefs, frontend)
            THEN {frontend_ru, frontend, front_end_hyphen, front_end_underscore}
            ELSE {}
    IN  from_triggers \cup frontend_words

\* the vacancy's skills and the raw text read before the early return
_evaluate_prefs_reading_first(prefs, vacancy_struct, raw_text) ==
    LET skills == GetOr(vacancy_struct, "skills_required", List(<<>>))
    IN  IF skills.t # "list" THEN {[t |-> "raise", exc |-> "TypeError"]}
        ELSE IF raw_text.t # "str" THEN {[t |-> "raise", exc |-> "AttributeError"]}
        ELSE IF prefs = <<>> \/ Lower(Strip(prefs)) \in {net_ru, none_en, no_en}
        THEN {[t |-> "return", score |-> One, violations |-> <<>>]}
        ELSE LET neg_keywords == NegKeywords(Lower(prefs))
                 skills_lower == LowerSet(skills.v)
                 raw_lower == Lower(raw_text.v)
                 hit == {kw \in neg_keywords :
                            kw \in skills_lower \/ Contains(raw_lower, kw)}
             IN  {[t |-> "return", score |-> IF hit # {} THEN Zero ELSE One,
                   violations |-> v] : v \in ListsOf(hit)}

\* the loop over neg_keywords left at the first keyword found
_evaluate_prefs_first_hit_only(prefs, vacancy_struct, raw_text) ==
    IF prefs = <<>> \/ Lower(Strip(prefs)) \in {net_ru, none_en, no_en}
    THEN {[t |-> "return", score |-> One, violations |-> <<>>]}
    ELSE LET skills == GetOr(vacancy_struct, "skills_required", List(<<>>))
         IN  IF skills.t # "list" THEN {[t |-> "raise", exc |-> "TypeError"]}
             ELSE IF raw_text.t # "str" THEN {[t |-> "raise", exc |-> "AttributeError"]}
             ELSE LET neg_keywords == NegKeywords(Lower(prefs))
                      skills_lower == LowerSet(skills.v)
                      raw_lower == Lower(raw_text.v)
                      hit == {kw \in neg_keywords :
                                 kw \in skills_lower \/ Contains(raw_lower, kw)}
                  IN  IF hit = {}
                      THEN {[t |-> "return", score |-> One, violations |-> <<>>]}
                      ELSE {[t |-> "return", score |-> Zero, violations |-> <<kw>>] :
                               kw \in hit}

\* the early return taken for an empty text only, not for the sentinels
_evaluate_prefs_without_sentinels(prefs, vacancy_struct, raw_text) ==
    IF prefs = <<>>
    THEN {[t |-> "return", score |-> One, violations |-> <<>>]}
    ELSE LET skills == GetOr(vacancy_struct, "skills_required", List(<<>>))
         IN  IF skills.t # "list" THEN {[t |-> "raise", exc |-> "TypeError"]}
             ELSE IF raw_text.t # "str" THEN {[t |-> "raise", exc |-> "AttributeError"]}
             ELSE LET neg_keywords == NegKeywords(Lower(prefs))
                      skills_lower == LowerSet(skills.v)
                      raw_lower == Lower(raw_text.v)
                      hit == {kw \in neg_keywords :
                                 kw \in skills_lower \/ Contains(raw_lower, kw)}
                  IN  {[t |-> "return", score |-> IF hit # {} THEN Zero ELSE One,
                        violations |-> v] : v \in ListsOf(hit)}

\* the keywords looked up in the required skills only, not in the raw text
_evaluate_prefs_skills_only(prefs, vacancy_struct, raw_text) ==
    IF prefs = <<>> \/ Lower(Strip(prefs)) \in {net_ru, none_en, no_en}
    THEN {[t |-> "return", score |-> One, violations |-> <<>>]}
    ELSE LET skills == GetOr(vacancy_struct, "skills_required", List(<<>>))
         IN  IF skills.t # "list" THEN {[t |-> "raise", exc |-> "TypeError"]}
             ELSE IF raw_text.t # "str" THEN {[t |-> "raise", exc |-> "AttributeError"]}
             ELSE LET neg_keywords == NegKeywords(Lower(prefs))
                      skills_lower == LowerSet(skills.v)
                      hit == {kw \in neg_keywords : kw \in skills_lower}
                  IN  {[t |-> "return", score |-> IF hit # {} THEN Zero ELSE One,
                        violations |-> v] : v \in ListsOf(hit)}

\* _evaluate_prefs(prefs_text, vacancy_struct, raw_text): the set of values it
\* can return; prefs_text is a str, the other two are Python values
_evaluate_prefs(prefs, vacancy_struct, raw_text) ==
    IF prefs = <<>> \/ Lower(Strip(prefs)) \in {net_ru, none_en, no_en}
    THEN {[t |-> "return", score |-> One, violations |-> <<>>]}
    ELSE LET skills == GetOr(vacancy_struct, "skills_required", List(<<>>))
         IN  IF skills.t # "list" THEN {[t |-> "raise", exc |-> "TypeError"]}
             ELSE IF raw_text.t # "str" THEN {[t |-> "raise", exc |-> "AttributeError"]}
             ELSE LET neg_keywords == NegKeywords(Lower(prefs))
                      skills_lower == LowerSet(skills.v)
                      raw_lower == Lower(raw_text.v)
                      hit == {kw \in neg_keywords :
                                 kw \in skills_lower \/ Contains(raw_lower, kw)}
                  IN  {[t |-> "return", score |-> IF hit # {} THEN Zero ELSE One,
                        violations |-> v] : v \in ListsOf(hit)}

----------------------------------------------------------------------------
(* Calls of _skill_score on drawn skill lists *)

SkillVocabulary == {python, Python, sql, docker}

\* the lists of at most n skills
SkillLists(n) == UNION {[1..k -> SkillVocabulary] : k \in 0..n}

NoResume ==
    [skills |-> List(<<>>), experience_years |-> Missing,
     preferred_schedule |-> Missing, preferences_raw |-> Missing]

NoVacancy ==
    [skills_required |-> List(<<>>), experience_level |-> Missing,
     schedule |-> Missing, salary |-> Missing, raw_text |-> Missing]

InitSkill ==
    /\ capability \in {"absent", "present"}
    /\ \E l \in SkillLists(MaxSkills) : resume = [NoResume EXCEPT !.skills = List(l)]
    /\ \E l \in SkillLists(MaxSkills) :
           vacancy = [NoVacancy EXCEPT !.skills_required = List(l)]
    /\ prefs_text = None
    /\ weights = None
    /\ embedded = [resume |-> "not_called", vacancy |-> "not_called"]
    /\ result = None
    /\ pc = "ready"
    /\ NoOtherCalls

SkillScoreCall ==
    /\ pc = "ready"
    /\ \E o_r, o_v \in EndpointOutcomes(capability, resume.skills, vacancy.skills_required) :
           /\ embedded' = [resume |-> o_r, vacancy |-> o_v]
           /\ result' \in _skill_score(resume.skills, vacancy.skills_required,
                                       capability, o_r, o_v)
    /\ pc' = "_skill_score"
    /\ UNCHANGED <<capability, resume, vacancy, prefs_text, weights>>
    /\ UNCHANGED <<module_globals, parse_text, extraction, calls, sub_scores, store, index_call,
                   conv_state, user_data, entered_by, sent, handler_log>>

NextSkill == SkillScoreCall

SpecSkill == InitSkill /\ [][NextSkill]_vars

----------------------------------------------------------------------------
(* Calls of _evaluate_prefs on drawn texts and vacancies *)

\* " Net\n" and "NONE" and "No ": sentinels up to blanks and case
net_padded == <<32, 1053, 1077, 1090, 10>>
NONE_upper == <<78, 79, 78, 69>>
No_padded == <<78, 111, 32>>
\* two blanks; "net." with a period; "no sql"
blanks == <<32, 32>>
net_period == <<1085, 1077, 1090, 46>>
no_sql == <<110, 111, 32, 115, 113, 108>>
\* "bez sql, docker" and "bez sql. docker" (Russian "without")
bez_sql_comma_docker ==
    <<1073, 1077, 1079, 32, 115, 113, 108, 44, 32, 100, 111, 99, 107, 101, 114>>
bez_sql_period_docker ==
    <<1073, 1077, 1079, 32, 115, 113, 108, 46, 32, 100, 111, 99, 107, 101, 114>>
\* "Ne hochu Frontend" with capitals; "lyublyu python" (Russian "I love python")
Ne_hochu_Frontend ==
    <<1053, 1077, 32, 1093, 1086, 1095, 1091, 32, 70, 114, 111, 110, 116, 101, 110, 100>>
lyublyu_python ==
    <<1083, 1102, 1073, 1083, 1102, 32, 112, 121, 116, 104, 111, 110>>
\* raw vacancy texts: "Frontend developer", "MySQL admin"
Frontend_developer ==
    <<70, 114, 111, 110, 116, 101, 110, 100, 32, 100, 101, 118, 101, 108, 111, 112, 101, 114>>
MySQL_admin == <<77, 121, 83, 81, 76, 32, 97, 100, 109, 105, 110>>
SQL == <<83, 81, 76>>

PrefsTexts ==
    {<<>>, net_ru, net_padded, NONE_upper, no_en, No_padded,
     blanks, net_period, no_sql, ne_hochu_frontend, Ne_hochu_Frontend,
     bez_sql_comma_docker, bez_sql_period_docker, lyublyu_python, frontend}

PrefsSkillLists ==
    {Missing, None, List(<<>>), List(<<python, sql, docker>>), List(<<SQL>>),
     List(<<Frontend>>), List(<<front_end_underscore, docker>>)}

PrefsRawTexts ==
    {Missing, None, Str(<<>>), Str(Frontend_developer), Str(MySQL_admin)}

InitPrefs ==
    /\ capability \in {"absent", "present"}
    /\ resume = NoResume
    /\ \E l \in PrefsSkillLists, raw \in PrefsRawTexts :
           vacancy = [NoVacancy EXCEPT !.skills_required = l, !.raw_text = raw]
    /\ \E p \in PrefsTexts : prefs_text = Str(p)
    /\ weights = None
    /\ embedded = [resume |-> "not_called", vacancy |-> "not_called"]
    /\ result = None
    /\ pc = "ready"
    /\ NoOtherCalls

\* _evaluate_prefs(prefs_text, vacancy, raw_text=vacancy["raw_text"]); a missing
\* raw_text is the call without that argument
PrefsCall ==
    /\ pc = "ready"
    /\ result' \in _evaluate_prefs(prefs_text.v, vacancy,
                                    GetOr(vacancy, "raw_text", Str(<<>>)))
    /\ pc' = "_evaluate_prefs"
    /\ UNCHANGED <<capability, resume, vacancy, prefs_text, weights, embedded>>
    /\ UNCHANGED <<module_globals, parse_text, extraction, calls, sub_scores, store, index_call,
                   conv_state, user_data, entered_by, sent, handler_log>>

NextPrefs == PrefsCall

SpecPrefs == InitPrefs /\ [][NextPrefs]_vars

----------------------------------------------------------------------------
(* Text extraction: _simple_skill_extract, _llm_extract, parse_resume,
   parse_vacancy *)

\* [A-Za-z], [A-Za-z0-9+\-#.] and \w (on the Latin and Cyrillic texts drawn)
AsciiLetter(c) == c \in 65..90 \/ c \in 97..122
SkillChar(c) == AsciiLetter(c) \/ c \in 48..57 \/ c \in {43, 45, 35, 46}
WordChar(c) == AsciiLetter(c) \/ c \in 48..57 \/ c = 95 \/ c \in 1024..1279

\* \b before position p: exactly one of the characters at p - 1 and p is a word
\* character
Boundary(txt, p) ==
    LET WordAt(q) == q \in DOMAIN txt /\ WordChar(txt[q])
    IN  WordAt(p - 1) # WordAt(p)

SkillRun(txt, p) ==
    LET stop == {q \in p..(Len(txt) + 1) : q = Len(txt) + 1 \/ ~SkillChar(txt[q])}
    IN  (CHOOSE q \in stop : \A r \in stop : q <= r) - p

\* the match of _SKILL_RE that starts at position i, if there is one: a letter
\* after a boundary, then the longest run of two or more characters of the
\* class that ends at a boundary
SkillMatchAt(txt, i) ==
    LET ks == {k \in 2..SkillRun(txt, i + 1) : Boundary(txt, i + 1 + k)}
    IN  IF AsciiLetter(txt[i]) /\ Boundary(txt, i) /\ ks # {}
        THEN LET k == CHOOSE x \in ks : \A y \in ks : y <= x
             IN  [found |-> TRUE, group |-> SubSeq(txt, i, i + k), end |-> i + k + 1]
        ELSE [found |-> FALSE]

\* {m.group(0).lower() for m in _SKILL_RE.finditer(text)}, scanning from i
RECURSIVE SkillMatches(_, _)
SkillMatches(txt, i) ==
    IF i > Len(txt) THEN {}
    ELSE LET m == SkillMatchAt(txt, i)
         IN  IF m.found THEN {Lower(m.group)} \cup SkillMatches(txt, m.end)
             ELSE SkillMatches(txt, i + 1)

\* _simple_skill_extract(text): the lists it can return
_simple_skill_extract(txt) == {List(l) : l \in ListsOf(SkillMatches(txt, 1))}

\* What the extraction capability does in one _llm_extract call: the GigaChat
\* constructor raises, invoke raises, the response carries no function call,
\* arguments that are no JSON, the JSON null, a JSON array, the empty object, an
\* object with the skills field, or an object without it.
ExtractionOutcomes ==
    {"construct_raises", "invoke_raises", "no_function_call", "invalid_json",
     "json_null", "json_array", "empty_object", "object_with_skills",
     "object_without_skills"}

\* the objects the capability answers with for the two schemas
ResumeObject(o) ==
    [skills |-> IF o = "object_with_skills" THEN List(<<Python, sql>>) ELSE Missing,
     experience_years |-> Num(3), preferred_schedule |-> Missing,
     preferences_raw |-> Missing]

VacancyObject(o) ==
    [skills_required |-> IF o = "object_with_skills" THEN List(<<Python, sql>>) ELSE Missing,
     experience_level |-> Missing, schedule |-> Str(remote), salary |-> Missing,
     raw_text |-> Missing]

\* _llm_extract(text, schema) when the capability does o: the dict (or other
\* JSON value) returned, or the exception raised; EmptyDict is {}
_llm_extract(cap, o, object) ==
    IF cap # "present" THEN [t |-> "return", v |-> EmptyDict]
    ELSE CASE o = "construct_raises" -> [t |-> "raise", exc |-> "Exception"]
           [] o \in {"invoke_raises", "invalid_json", "no_function_call"} ->
                  [t |-> "return", v |-> EmptyDict]
           [] o = "json_null" -> [t |-> "return", v |-> None]
           [] o = "json_array" -> [t |-> "return", v |-> List(<<python>>)]
           [] o = "empty_object" -> [t |-> "return", v |-> EmptyDict]
           [] OTHER -> [t |-> "return", v |-> object]

\* truthiness of what _llm_extract returned: a record of fields is a non-empty
\* dict
NotData(data) == IF "t" \in DOMAIN data THEN ~Truthy(data) ELSE FALSE

\* the fallback records
FallbackResume(txt) ==
    {[skills |-> l, experience_years |-> None, preferred_schedule |-> None,
      preferences_raw |-> Str(<<>>)] : l \in _simple_skill_extract(txt)}

FallbackVacancy(txt) ==
    {[skills_required |-> l, experience_level |-> None, schedule |-> None,
      salary |-> None, raw_text |-> Missing] : l \in _simple_skill_extract(txt)}

\* parse_resume(text) and parse_vacancy(text): the values they can return, or
\* the exception they raise
parse_resume(txt, cap, o) ==
    LET data == _llm_extract(cap, o, ResumeObject(o))
    IN  IF data.t = "raise" THEN {data}
        ELSE IF NotData(data.v) THEN {[t |-> "return", v |-> r] : r \in FallbackResume(txt)}
        ELSE {data}

parse_vacancy(txt, cap, o) ==
    LET data == _llm_extract(cap, o, VacancyObject(o))
    IN  IF data.t = "raise" THEN {data}
        ELSE IF NotData(data.v) THEN {[t |-> "return", v |-> r] : r \in FallbackVacancy(txt)}
        ELSE {data}

\* texts: "Python, SQL", "C++ go c#", "node.js i Docker." (Russian "and"),
\* "my_sql 3python .net", "sql SQL Sql"
text_python_sql == <<80, 121, 116, 104, 111, 110, 44, 32, 83, 81, 76>>
text_cpp_go == <<67, 43, 43, 32, 103, 111, 32, 99, 35>>
text_node_docker ==
    <<110, 111, 100, 101, 46, 106, 115, 32, 1080, 32, 68, 111, 99, 107, 101, 114, 46>>
text_my_sql == <<109, 121, 95, 115, 113, 108, 32, 51, 112, 121, 116, 104, 111, 110, 32,
                 46, 110, 101, 116>>
text_sql_thrice == <<115, 113, 108, 32, 83, 81, 76, 32, 83, 113, 108>>

ParseTexts ==
    {<<>>, text_python_sql, text_cpp_go, text_node_docker, text_my_sql, text_sql_thrice}

InitParse ==
    /\ capability \in {"absent", "present"}
    /\ resume = NoResume
    /\ vacancy = NoVacancy
    /\ prefs_text = None
    /\ weights = None
    /\ embedded = [resume |-> "not_called", vacancy |-> "not_called"]
    /\ result = None
    /\ pc = "ready"
    /\ module_globals = ModuleGlobals
    /\ \E txt \in ParseTexts : parse_text = Str(txt)
    /\ extraction = "not_called"
    /\ calls = <<>>
    /\ sub_scores = <<>>
    /\ store = <<>>
    /\ index_call = [n |-> 0]
    /\ conv_state = "END"
    /\ user_data = NoUserData
    /\ entered_by = "none"
    /\ sent = <<>>
    /\ handler_log = <<>>

\* what the capability can do in one call: nothing when it is not configured
ExtractionOf(cap) == IF cap = "present" THEN ExtractionOutcomes ELSE {"unavailable"}

ParseResumeCall ==
    /\ pc = "ready"
    /\ \E o \in ExtractionOf(capability) :
           /\ extraction' = o
           /\ result' \in parse_resume(parse_text.v, capability, o)
    /\ pc' = "parse_resume"
    /\ UNCHANGED <<capability, resume, vacancy, prefs_text, weights, embedded,
                   module_globals, parse_text, calls, sub_scores, store, index_call,
                   conv_state, user_data, entered_by, sent, handler_log>>

ParseVacancyCall ==
    /\ pc = "ready"
    /\ \E o \in ExtractionOf(capability) :
           /\ extraction' = o
           /\ result' \in parse_vacancy(parse_text.v, capability, o)
    /\ pc' = "parse_vacancy"
    /\ UNCHANGED <<capability, resume, vacancy, prefs_text, weights, embedded,
                   module_globals, parse_text, calls, sub_scores, store, index_call,
                   conv_state, user_data, entered_by, sent, handler_log>>

NextParse == ParseResumeCall \/ ParseVacancyCall

SpecParse == InitParse /\ [][NextParse]_vars

----------------------------------------------------------------------------
(* The public matching function *)

\* the band table of match_resume_to_vacancy: level -> (low, high)
mapping ==
    [l \in {noExperience, between1And3, between3And6, moreThan6} |->
        CASE l = noExperience -> <<0, 0>>
          [] l = between1And3 -> <<1, 3>>
          [] l = between3And6 -> <<3, 6>>
          [] l = moreThan6 -> <<6, 100>>]

\* unknown years read as zero years
ExperienceScore_unknown_as_zero(res, vac) ==
    IF Truthy(Get(vac, "experience_level"))
    THEN LET lvl == vac["experience_level"].v
             years == IF Get(res, "experience_years").t = "none" THEN 0
                      ELSE res["experience_years"].v
         IN  IF lvl \in DOMAIN mapping
             THEN IF mapping[lvl][1] <= years /\ years <= mapping[lvl][2]
                  THEN One ELSE Zero
             ELSE One
    ELSE One

\* zero years read as unknown years ("if years" for "if years is not None")
ExperienceScore_zero_as_unknown(res, vac) ==
    IF Truthy(Get(vac, "experience_level"))
    THEN LET lvl == vac["experience_level"].v
             years == Get(res, "experience_years")
         IN  IF Truthy(years) /\ lvl \in DOMAIN mapping
             THEN IF mapping[lvl][1] <= years.v /\ years.v <= mapping[lvl][2]
                  THEN One ELSE Zero
             ELSE One
    ELSE One

\* a level outside the table counted as a mismatch
ExperienceScore_unknown_level_fails(res, vac) ==
    IF Truthy(Get(vac, "experience_level"))
    THEN LET lvl == vac["experience_level"].v
             years == Get(res, "experience_years")
         IN  IF lvl \notin DOMAIN mapping THEN Zero
             ELSE IF years.t # "none"
             THEN IF mapping[lvl][1] <= years.v /\ years.v <= mapping[lvl][2]
                  THEN One ELSE Zero
             ELSE One
    ELSE One

\* the experience sub-score
ExperienceScore(res, vac) ==
    IF Truthy(Get(vac, "experience_level"))
    THEN LET lvl == vac["experience_level"].v
             years == Get(res, "experience_years")
         IN  IF years.t # "none" /\ lvl \in DOMAIN mapping
             THEN IF mapping[lvl][1] <= years.v /\ years.v <= mapping[lvl][2]
                  THEN One ELSE Zero
             ELSE One
    ELSE One

\* an unknown side counted as a mismatch
ScheduleScore_strict(res, vac) ==
    IF Get(res, "preferred_schedule") = Get(vac, "schedule") THEN One ELSE Zero

\* the schedule sub-score
ScheduleScore(res, vac) ==
    LET res_sched == Get(res, "preferred_schedule")
    IN  IF Truthy(res_sched) /\ Truthy(Get(vac, "schedule"))
        THEN IF res_sched = vac["schedule"] THEN One ELSE Zero
        ELSE One

\* the sum with the preferences term taken off instead of added
FinalScore_penalising_prefs(w, skills_score, exp_score, sched_score, prefs_score) ==
    RAdd(RAdd(RAdd(RMul(skills_score, w.skills), RMul(exp_score, w.experience)),
              RMul(sched_score, w.schedule)),
         RMul(prefs_score, <<-w.prefs[1], w.prefs[2]>>))

\* the sum without the preferences term
FinalScore_without_prefs(w, skills_score, exp_score, sched_score, prefs_score) ==
    RAdd(RAdd(RMul(skills_score, w.skills), RMul(exp_score, w.experience)),
         RMul(sched_score, w.schedule))

\* the weighted sum of the four sub-scores
FinalScore(w, skills_score, exp_score, sched_score, prefs_score) ==
    RAdd(RAdd(RAdd(RMul(skills_score, w.skills), RMul(exp_score, w.experience)),
              RMul(sched_score, w.schedule)),
         RMul(prefs_score, w.prefs))

\* the weights argument ignored
EffectiveWeights_default_only(wts) == WEIGHTS

\* w = weights or WEIGHTS
EffectiveWeights(wts) == IF Truthy(wts) THEN wts.v ELSE WEIGHTS

\* match_resume_to_vacancy(resume, vacancy, prefs_text, weights): the set of
\* values it can return (or exceptions it can raise) when the endpoint does o_r
\* and o_v for the two skill lists
match_resume_to_vacancy(res, vac, prefs, wts, cap, o_r, o_v) ==
    LET w == EffectiveWeights(wts)
        exp_score == ExperienceScore(res, vac)
        sched_score == ScheduleScore(res, vac)
        prefs_outcomes ==
            _evaluate_prefs(IF Truthy(prefs) THEN prefs.v ELSE <<>>, vac,
                            GetOr(vac, "raw_text", Str(<<>>)))
    IN  {IF p.t = "raise" THEN p
         ELSE [t |-> "return",
               score |-> Round3(FinalScore(w, s.score, exp_score, sched_score, p.score)),
               skills_score |-> Round3(s.score),
               experience_ok |-> exp_score # Zero,
               schedule_ok |-> sched_score # Zero,
               prefs_ok |-> p.score # Zero,
               matched_skills |-> s.matched,
               missing_skills |-> s.missing,
               pref_violations |-> p.violations] :
            <<s, p>> \in
                _skill_score(GetOr(res, "skills", List(<<>>)),
                             GetOr(vac, "skills_required", List(<<>>)), cap, o_r, o_v)
                \X prefs_outcomes}

----------------------------------------------------------------------------
(* Calls of match_resume_to_vacancy on drawn records *)

\* weight tables a caller can pass: one that sums to 1, one that does not, and
\* one that sums to 1 with a negative weight
CustomWeights ==
    {[skills |-> Rat(50, 100), experience |-> Rat(20, 100),
      schedule |-> Rat(20, 100), prefs |-> Rat(10, 100)],
     [skills |-> One, experience |-> One, schedule |-> One, prefs |-> One],
     [skills |-> Rat(150, 100), experience |-> Rat(-50, 100),
      schedule |-> Zero, prefs |-> Zero]}

WeightArgs == {None, EmptyDict} \cup {Dict(w) : w \in CustomWeights}

PrefsArgs == {None, Str(<<>>), Str(ne_hochu_frontend)}

\* the skill list and the raw text of the drawn vacancies
VacancyTexts ==
    {<<List(<<>>), Missing>>,
     <<List(<<python, sql, docker>>), Str(<<>>)>>,
     <<List(<<python, sql, docker, frontend>>), Str(<<>>)>>,
     <<List(<<Python>>), Str(Frontend)>>}

MatchResumes ==
    {[NoResume EXCEPT !.skills = List(l), !.experience_years = y,
                      !.preferred_schedule = s] :
        l \in {<<>>, <<python, sql>>}, y \in {Num(2), Num(7)},
        s \in {None, Str(remote)}}

MatchVacancies ==
    {[NoVacancy EXCEPT !.skills_required = x[1], !.raw_text = x[2],
                       !.experience_level = lvl, !.schedule = s] :
        x \in VacancyTexts, lvl \in {None, Str(moreThan6)},
        s \in {None, Str(remote), Str(fullDay)}}

Init ==
    /\ capability \in {"absent", "present"}
    /\ resume \in MatchResumes
    /\ vacancy \in MatchVacancies
    /\ prefs_text \in PrefsArgs
    /\ weights \in WeightArgs
    /\ embedded = [resume |-> "not_called", vacancy |-> "not_called"]
    /\ result = None
    /\ pc = "ready"
    /\ NoOtherCalls

\* the call with the vacancy's skill list case-folded in place
MatchCall_lowering_in_place ==
    /\ pc = "ready"
    /\ \E o_r, o_v \in EndpointOutcomes(capability, GetOr(resume, "skills", List(<<>>)),
                                         GetOr(vacancy, "skills_required", List(<<>>))) :
           /\ embedded' = [resume |-> o_r, vacancy |-> o_v]
           /\ result' \in match_resume_to_vacancy(resume, vacancy, prefs_text, weights,
                                                  capability, o_r, o_v)
    /\ pc' = "match_resume_to_vacancy"
    /\ vacancy' =
           IF vacancy.skills_required.t = "list"
           THEN [vacancy EXCEPT !.skills_required.v = [i \in DOMAIN @ |-> Lower(@[i])]]
           ELSE vacancy
    /\ UNCHANGED <<capability, resume, prefs_text, weights>>
    /\ UNCHANGED <<module_globals, parse_text, extraction, calls, sub_scores, store, index_call,
                   conv_state, user_data, entered_by, sent, handler_log>>

MatchCall ==
    /\ pc = "ready"
    /\ \E o_r, o_v \in EndpointOutcomes(capability, GetOr(resume, "skills", List(<<>>)),
                                         GetOr(vacancy, "skills_required", List(<<>>))) :
           /\ embedded' = [resume |-> o_r, vacancy |-> o_v]
           /\ result' \in match_resume_to_vacancy(resume, vacancy, prefs_text, weights,
                                                  capability, o_r, o_v)
    /\ pc' = "match_resume_to_vacancy"
    /\ UNCHANGED <<capability, resume, vacancy, prefs_text, weights>>
    /\ UNCHANGED <<module_globals, parse_text, extraction, calls, sub_scores, store, index_call,
                   conv_state, user_data, entered_by, sent, handler_log>>

Next == MatchCall

Spec == Init /\ [][Next]_vars

\* the experience table in full: every level against every number of years
ExperienceLevels ==
    {Missing, None, Str(<<>>), Str(noExperience), Str(between1And3),
     Str(between3And6), Str(moreThan6), Str(senior)}

ExperienceYears ==
    {Missing, None} \cup {Num(y) : y \in {0, 1, 2, 3, 4, 6, 7, 100, 101}}

InitExperience ==
    /\ capability \in {"absent", "present"}
    /\ \E y \in ExperienceYears :
           resume = [NoResume EXCEPT !.skills = List(<<python, sql>>),
                                     !.experience_years = y]
    /\ \E lvl \in ExperienceLevels :
           vacancy = [NoVacancy EXCEPT !.skills_required = List(<<python, sql, docker>>),
                                      !.experience_level = lvl]
    /\ prefs_text = None
    /\ weights \in WeightArgs
    /\ embedded = [resume |-> "not_called", vacancy |-> "not_called"]
    /\ result = None
    /\ pc = "ready"
    /\ NoOtherCalls

SpecExperience == InitExperience /\ [][Next]_vars

\* the schedule table in full: every preferred schedule against every schedule
ScheduleValues ==
    {Missing, None, Str(<<>>), Str(remote), Str(Remote), Str(fullDay)}

InitSchedule ==
    /\ capability \in {"absent", "present"}
    /\ \E s \in ScheduleValues :
           resume = [NoResume EXCEPT !.skills = List(<<python, sql>>),
                                     !.preferred_schedule = s]
    /\ \E s \in ScheduleValues :
           vacancy = [NoVacancy EXCEPT !.skills_required = List(<<python, sql, docker>>),
                                      !.schedule = s]
    /\ prefs_text = None
    /\ weights \in WeightArgs
    /\ embedded = [resume |-> "not_called", vacancy |-> "not_called"]
    /\ result = None
    /\ pc = "ready"
    /\ NoOtherCalls

SpecSchedule == InitSchedule /\ [][Next]_vars

\* records with optional data absent: every field missing, None or empty, the
\* skill lists also with one skill
AbsentResumes ==
    {[skills |-> l, experience_years |-> y, preferred_schedule |-> s,
      preferences_raw |-> p] :
        l \in {Missing, None, List(<<>>), List(<<python>>)},
        y \in {Missing, None},
        s \in {Missing, None, Str(<<>>)},
        p \in {Missing, Str(<<>>)}}

AbsentVacancies ==
    {[skills_required |-> l, experience_level |-> lvl, schedule |-> s,
      salary |-> m, raw_text |-> raw] :
        l \in {Missing, None, List(<<>>), List(<<Python>>)},
        lvl \in {Missing, None, Str(<<>>)},
        s \in {Missing, None, Str(<<>>)},
        m \in {Missing, None},
        raw \in {Missing, None, Str(<<>>)}}

InitAbsent ==
    /\ capability \in {"absent", "present"}
    /\ resume \in AbsentResumes
    /\ vacancy \in AbsentVacancies
    /\ prefs_text \in {None, Str(<<>>)}
    /\ weights = None
    /\ embedded = [resume |-> "not_called", vacancy |-> "not_called"]
    /\ result = None
    /\ pc = "ready"
    /\ NoOtherCalls

SpecAbsent == InitAbsent /\ [][Next]_vars

----------------------------------------------------------------------------
(* The final score of two runs that differ in their sub-scores *)

\* the values the four sub-scores take: skills_score is a ratio of skill counts,
\* the other three are 0.0 or 1.0
SubScores ==
    [skills : {Zero, Rat(1, 3), Rat(1, 2), Rat(2, 3), One},
     experience : {Zero, One}, schedule : {Zero, One}, prefs : {Zero, One}]

InitFinal ==
    /\ capability = "absent"
    /\ resume = NoResume
    /\ vacancy = NoVacancy
    /\ prefs_text = None
    /\ weights \in WeightArgs
    /\ embedded = [resume |-> "not_called", vacancy |-> "not_called"]
    /\ result = [i \in {1, 2} |-> None]
    /\ pc = "ready"
    /\ module_globals = ModuleGlobals
    /\ parse_text = None
    /\ extraction = "not_called"
    /\ calls = <<>>
    /\ sub_scores \in [{1, 2} -> SubScores]
    /\ store = <<>>
    /\ index_call = [n |-> 0]
    /\ conv_state = "END"
    /\ user_data = NoUserData
    /\ entered_by = "none"
    /\ sent = <<>>
    /\ handler_log = <<>>

\* run i reaches the end of match_resume_to_vacancy with its four sub-scores:
\* final = the weighted sum, "score": round(final, 3)
FinalStep(i) ==
    /\ result[i] = None
    /\ LET w == EffectiveWeights(weights)
           final == FinalScore(w, sub_scores[i].skills, sub_scores[i].experience,
                               sub_scores[i].schedule, sub_scores[i].prefs)
       IN  result' = [result EXCEPT ![i] = Round3(final)]
    /\ pc' = "final"
    /\ UNCHANGED <<capability, resume, vacancy, prefs_text, weights, embedded,
                   module_globals, parse_text, extraction, calls, sub_scores, store,
                   index_call,
                   conv_state, user_data, entered_by, sent, handler_log>>

NextFinal == \E i \in {1, 2} : FinalStep(i)

SpecFinal == InitFinal /\ [][NextFinal]_vars

----------------------------------------------------------------------------
(* Interleaved calls of match_resume_to_vacancy that share one resume *)

\* A call is suspended only inside embed_query, the network call of
\* _embed_skills: once for the resume's skills and once for the vacancy's. Its
\* frame holds the vacancy it was given, where it stands, the locals it has
\* computed, what the endpoint answered to it, and its result.

\* the answers of the endpoint drawn for the interleaved calls
ConcurrentOutcomes == {"raise", "e10"}

\* vacancies with and without the skill "frontend", with and without a raw text
\* that names the frontend
ConcurrentVacancies ==
    {[NoVacancy EXCEPT !.skills_required = List(l), !.raw_text = Str(raw)] :
        l \in {<<python>>, <<python, frontend>>}, raw \in {<<>>, Frontend_developer}}

NewFrame(vac) ==
    [vacancy |-> vac, at |-> "start", resume_skills |-> None, resume_emb |-> "none",
     answers |-> [resume |-> "not_called", vacancy |-> "not_called"], result |-> None]

InitConcurrent ==
    /\ capability \in {"absent", "present"}
    /\ resume = [NoResume EXCEPT !.skills = List(<<python>>),
                                 !.experience_years = Num(2),
                                 !.preferred_schedule = Str(remote)]
    /\ vacancy = NoVacancy
    /\ prefs_text = Str(ne_hochu_frontend)
    /\ weights = None
    /\ embedded = [resume |-> "not_called", vacancy |-> "not_called"]
    /\ result = None
    /\ pc = "interleaved"
    /\ module_globals = ModuleGlobals
    /\ parse_text = None
    /\ extraction = "not_called"
    /\ calls \in [1..NumCalls -> {NewFrame(v) : v \in ConcurrentVacancies}]
    /\ sub_scores = <<>>
    /\ store = <<>>
    /\ index_call = [n |-> 0]
    /\ conv_state = "END"
    /\ user_data = NoUserData
    /\ entered_by = "none"
    /\ sent = <<>>
    /\ handler_log = <<>>

\* every frame's embedding of the resume's skills set to the answer given to call i
KeepResumeEmbedding_shared(c, i, o) == [j \in DOMAIN c |-> [c[j] EXCEPT !.resume_emb = o]]

\* the embedding of the resume's skills is a temporary of call i
KeepResumeEmbedding(c, i, o) == [c EXCEPT ![i].resume_emb = o]

\* what a call returns once its two embeddings are there: the skills were read
\* on entry, the other fields of the resume are read now
Finish(frame, o_r, o_v) ==
    match_resume_to_vacancy([resume EXCEPT !.skills = frame.resume_skills],
                            frame.vacancy, prefs_text, weights, capability, o_r, o_v)

\* call i runs from its entry to its first embed_query, or to its end when no
\* embed_query is made
Begin(i) ==
    /\ calls[i].at = "start"
    /\ LET skills == GetOr(resume, "skills", List(<<>>))
           entered == [calls[i] EXCEPT !.resume_skills = skills]
       IN  IF EndpointOutcomes(capability, skills,
                               GetOr(calls[i].vacancy, "skills_required", List(<<>>)))
                 = {"not_called"}
           THEN \E r \in Finish(entered, "not_called", "not_called") :
                    calls' = [calls EXCEPT ![i] = [entered EXCEPT !.at = "done",
                                                                  !.result = r]]
           ELSE calls' = [calls EXCEPT ![i] = [entered EXCEPT !.at = "embed_resume"]]
    /\ UNCHANGED <<capability, resume, vacancy, prefs_text, weights, embedded, result,
                   pc, module_globals, parse_text, extraction, sub_scores, store, index_call,
                   conv_state, user_data, entered_by, sent, handler_log>>

\* the endpoint answers the embed_query for the resume's skills of call i, which
\* goes on to the embed_query for the vacancy's skills
ResumeEmbedded(i) ==
    /\ calls[i].at = "embed_resume"
    /\ \E o \in ConcurrentOutcomes :
           calls' = KeepResumeEmbedding(
                        [calls EXCEPT ![i].at = "embed_vacancy", ![i].answers.resume = o],
                        i, o)
    /\ UNCHANGED <<capability, resume, vacancy, prefs_text, weights, embedded, result,
                   pc, module_globals, parse_text, extraction, sub_scores, store, index_call,
                   conv_state, user_data, entered_by, sent, handler_log>>

\* the endpoint answers the embed_query for the vacancy's skills of call i, which
\* runs to its end
VacancyEmbedded(i) ==
    /\ calls[i].at = "embed_vacancy"
    /\ \E o \in ConcurrentOutcomes :
           \E r \in Finish(calls[i], calls[i].resume_emb, o) :
               calls' = [calls EXCEPT ![i].at = "done", ![i].answers.vacancy = o,
                                      ![i].result = r]
    /\ UNCHANGED <<capability, resume, vacancy, prefs_text, weights, embedded, result,
                   pc, module_globals, parse_text, extraction, sub_scores, store, index_call,
                   conv_state, user_data, entered_by, sent, handler_log>>

NextConcurrent ==
    \E i \in DOMAIN calls : Begin(i) \/ ResumeEmbedded(i) \/ VacancyEmbedded(i)

SpecConcurrent == InitConcurrent /\ [][NextConcurrent]_vars

----------------------------------------------------------------------------
(* The resume index: RAGService of src/services/rag_match_service.py *)

CHUNK_SIZE == 800
CHUNK_OVERLAP == 100
RESUME_PREVIEW_LENGTH == 100

\* hashlib.md5(preview.encode("utf-8")).hexdigest()[:8]: a digest of the text in
\* a bounded range, equal for equal texts; here a checksum of 16 bits
Md5Prefix(s) == SumRange([i \in DOMAIN s |-> i * s[i]], 1, Len(s)) % 65536

\* f"{user_id}_{preview_hash}"
_generate_resume_id(resume_text, user_id) ==
    LET preview ==
            Strip(SubSeq(resume_text, 1,
                         IF Len(resume_text) < RESUME_PREVIEW_LENGTH THEN Len(resume_text)
                         ELSE RESUME_PREVIEW_LENGTH))
    IN  [user_id |-> user_id, preview_hash |-> Md5Prefix(preview)]

\* the duplicate test answering that nothing is stored yet
_is_duplicate_never(db, resume_text, user_id) == FALSE

\* existing = self.db.get(where={"resume_id": {"$eq": resume_id}});
\* bool(existing and existing["ids"])
_is_duplicate(db, resume_text, user_id) ==
    LET resume_id == _generate_resume_id(resume_text, user_id)
    IN  \E i \in DOMAIN db : db[i].metadata.resume_id = resume_id

\* self.text_splitter.split_text(resume_text) on a text without separators: a
\* text of at most CHUNK_SIZE characters is one chunk, a longer one is cut in
\* windows of CHUNK_SIZE characters that overlap by CHUNK_OVERLAP; a blank text
\* gives no chunk
split_text(txt) ==
    IF \A i \in DOMAIN txt : IsSpace(txt[i]) THEN <<>>
    ELSE IF Len(txt) <= CHUNK_SIZE THEN <<Strip(txt)>>
    ELSE LET step == CHUNK_SIZE - CHUNK_OVERLAP
             n == CHOOSE k \in 1..Len(txt) :
                      /\ (k - 1) * step + CHUNK_SIZE >= Len(txt)
                      /\ \A j \in 1..(k - 1) : (j - 1) * step + CHUNK_SIZE < Len(txt)
         IN  [k \in 1..n |->
                 SubSeq(txt, (k - 1) * step + 1,
                        IF (k - 1) * step + CHUNK_SIZE < Len(txt)
                        THEN (k - 1) * step + CHUNK_SIZE ELSE Len(txt))]

\* the entries add_texts(chunks, metadatas=metas) appends for one resume
NewEntries(resume_text, user_id) ==
    LET chunks == split_text(resume_text)
    IN  [k \in DOMAIN chunks |->
            [text |-> chunks[k],
             metadata |-> [resume_id |-> _generate_resume_id(resume_text, user_id),
                           user_id |-> user_id, chunk_ix |-> k - 1]]]

\* number of index_resume_if_needed calls in a run
MaxIndexCalls == 3

IndexUsers == {1, 2}

\* 120 letters; the same with another letter at position 110, after the preview;
\* the same with another first letter; 900 letters, which make two chunks
text_long == [i \in 1..120 |-> 97]
text_long_other_tail == [i \in 1..120 |-> IF i = 110 THEN 98 ELSE 97]
text_long_other_head == [i \in 1..120 |-> IF i = 1 THEN 98 ELSE 97]
text_two_chunks == [i \in 1..900 |-> 99]

IndexTexts ==
    {<<>>, text_python_sql, text_long, text_long_other_tail, text_long_other_head,
     text_two_chunks}

InitIndex ==
    /\ capability = "present"
    /\ resume = NoResume
    /\ vacancy = NoVacancy
    /\ prefs_text = None
    /\ weights = None
    /\ embedded = [resume |-> "not_called", vacancy |-> "not_called"]
    /\ result = None
    /\ pc = "ready"
    /\ module_globals = ModuleGlobals
    /\ parse_text = None
    /\ extraction = "not_called"
    /\ calls = <<>>
    /\ sub_scores = <<>>
    /\ store = <<>>
    /\ index_call = [n |-> 0]
    /\ conv_state = "END"
    /\ user_data = NoUserData
    /\ entered_by = "none"
    /\ sent = <<>>
    /\ handler_log = <<>>

\* index_resume_if_needed(resume_text, user_id) on the collection db: the
\* collection it leaves and the id it returns; add_texts embeds the chunks
\* through the endpoint and can fail, adding nothing
index_resume_if_needed(db, resume_text, user_id, add_texts) ==
    LET resume_id == _generate_resume_id(resume_text, user_id)
    IN  IF _is_duplicate(db, resume_text, user_id)
        THEN [db |-> db, ret |-> [t |-> "return", v |-> resume_id]]
        ELSE IF add_texts = "raise"
        THEN [db |-> db, ret |-> [t |-> "raise", exc |-> "add_texts"]]
        ELSE [db |-> db \o NewEntries(resume_text, user_id),
              ret |-> [t |-> "return", v |-> resume_id]]

\* a direct call of rag_service.index_resume_if_needed
IndexResumeIfNeeded ==
    /\ index_call.n < MaxIndexCalls
    /\ \E user_id \in IndexUsers, resume_text \in IndexTexts, add_texts \in {"ok", "raise"} :
           LET out == index_resume_if_needed(store, resume_text, user_id, add_texts)
           IN  /\ index_call' = [n |-> index_call.n + 1, user_id |-> user_id,
                                 resume_text |-> resume_text]
               /\ store' = out.db
               /\ result' = out.ret
    /\ pc' = "index_resume_if_needed"
    /\ UNCHANGED <<capability, resume, vacancy, prefs_text, weights, embedded,
                   module_globals, parse_text, extraction, calls, sub_scores,
                   conv_state, user_data, entered_by, sent, handler_log>>

NextIndex == IndexResumeIfNeeded

SpecIndex == InitIndex /\ [][NextIndex]_vars

----------------------------------------------------------------------------
(* The Telegram dialogue: src/services/bot_service.py.  One chat; a handler
   runs to its end before the next update is taken.  Sending a message to
   Telegram is taken to succeed.  Of context.user_data the model keeps the
   keys the handlers below read: is_auto_apply, the search filters (as the set
   of keys filled in), prefs and resume.  show_vacancy_details and the
   cover-letter handlers behind it answer only to the button of a vacancy
   message and are left out. *)

\* MATCH_THRESHOLD = 0.5
MATCH_THRESHOLD == <<1, 2>>

\* update.message.chat.id
ChatId == 1

\* longest list of vacancies the search answers with
MaxItems == 2

\* the keys hh_resume reads with context.user_data[...]
SearchKeys == {"keywords", "experience", "employment", "schedule"}

\* the parameters of match_resume_to_vacancy and the keyword arguments hh_resume
\* passes
MatchParameters == {"resume", "vacancy", "prefs_text", "weights"}
MatchKeywords == {"prefs_text", "search_title"}

\* vacancies the search can return: "SQL" without description, "Python" with
\* the description "docker"
FoundVacancies ==
    {[id |-> 1, name |-> SQL, description |-> None],
     [id |-> 2, name |-> Python, description |-> Str(docker)]}

ItemLists(n) == UNION {[1..k -> FoundVacancies] : k \in 0..n}

\* what search_vacancies does: it raises or answers with a list of items
SearchAnswers ==
    {[t |-> "raise", exc |-> "Exception"]}
        \cup {[t |-> "return", items |-> l] : l \in ItemLists(MaxItems)}

\* the messages hh_resume can be handed: the text "net", a resume as text, a
\* PDF whose text could not be read
ResumeMessages ==
    {[kind |-> "text", v |-> net_ru], [kind |-> "text", v |-> text_python_sql],
     [kind |-> "document", v |-> <<>>]}

\* what the extraction capability does in the parse calls of a handler run
BotExtraction(cap) ==
    IF cap = "present" THEN {"construct_raises", "object_with_skills"}
    ELSE {"unavailable"}

\* f"{v['name']}\n{v.get('description') or ''}"
VacRaw(v) == v.name \o <<10>> \o (IF Truthy(v.description) THEN v.description.v ELSE <<>>)

\* match_resume_to_vacancy(resume_struct, vacancy_struct, prefs_text=...,
\* search_title=...): a keyword that is no parameter raises TypeError before
\* the body runs
MatchFromBot(resume_struct, vacancy_struct, prefs, cap) ==
    IF MatchKeywords \subseteq MatchParameters
    THEN UNION {match_resume_to_vacancy(resume_struct, vacancy_struct, prefs, None,
                                        cap, o[1], o[2]) :
                   o \in EndpointOutcomes(cap, GetOr(resume_struct, "skills", List(<<>>)),
                                          GetOr(vacancy_struct, "skills_required",
                                                List(<<>>)))
                         \X EndpointOutcomes(cap, GetOr(resume_struct, "skills", List(<<>>)),
                                             GetOr(vacancy_struct, "skills_required",
                                                   List(<<>>)))}
    ELSE {[t |-> "raise", exc |-> "TypeError"]}

\* the resume structured again in every pass of the loop
IterationCalls_parsing_resume_again(resume_struct, vac_raw, parsed, vacancy_struct, m) ==
    <<[call |-> "parse_resume", ret |-> [t |-> "return", v |-> resume_struct]],
      [call |-> "parse_vacancy", text |-> vac_raw, ret |-> parsed],
      [call |-> "match_resume_to_vacancy", resume |-> resume_struct,
       vacancy |-> vacancy_struct, ret |-> m]>>

\* the calls of one pass of the loop over the items
IterationCalls(resume_struct, vac_raw, parsed, vacancy_struct, m) ==
    <<[call |-> "parse_vacancy", text |-> vac_raw, ret |-> parsed],
      [call |-> "match_resume_to_vacancy", resume |-> resume_struct,
       vacancy |-> vacancy_struct, ret |-> m]>>

\* the loop over the items from the k-th on: the calls it makes and how it
\* ends, with the list good_items or with an exception
RECURSIVE ScoreItems(_, _, _, _, _, _, _)
ScoreItems(items, k, resume_struct, prefs, cap, o_v, good_items) ==
    IF k > Len(items)
    THEN {[log |-> <<>>, end |-> [t |-> "done", good_items |-> good_items]]}
    ELSE LET v == items[k]
             vac_raw == VacRaw(v)
             Parsed(parsed) ==
                 [call |-> "parse_vacancy", text |-> vac_raw, ret |-> parsed]
         IN  UNION {
               IF parsed.t = "raise"
               THEN {[log |-> <<Parsed(parsed)>>, end |-> parsed]}
               ELSE IF "t" \in DOMAIN parsed.v
               THEN \* vacancy_struct["raw_text"] = vac_raw on a list
                    {[log |-> <<Parsed(parsed)>>,
                      end |-> [t |-> "raise", exc |-> "TypeError"]]}
               ELSE LET vacancy_struct == [parsed.v EXCEPT !.raw_text = Str(vac_raw)]
                    IN  UNION {
                          LET made == IterationCalls(resume_struct, vac_raw, parsed,
                                                     vacancy_struct, m)
                          IN  IF m.t = "raise" THEN {[log |-> made, end |-> m]}
                              ELSE IF RLeq(MATCH_THRESHOLD, m.score)
                              THEN \* match["title_score"]
                                   {[log |-> made,
                                     end |-> [t |-> "raise", exc |-> "KeyError"]]}
                              ELSE {[log |-> made \o rest.log, end |-> rest.end] :
                                       rest \in ScoreItems(items, k + 1, resume_struct,
                                                           prefs, cap, o_v, good_items)} :
                          m \in MatchFromBot(resume_struct, vacancy_struct, prefs, cap)} :
               parsed \in parse_vacancy(vac_raw, cap, o_v)}

\* good_items.sort(key=match_score, reverse=True): the stable sort
SortedByScore(good_items) ==
    LET n == Len(good_items)
        order == CHOOSE f \in [1..n -> 1..n] :
                     /\ \A i, j \in 1..n : i # j => f[i] # f[j]
                     /\ \A i \in 1..(n - 1) :
                            \/ RLess(good_items[f[i + 1]].match_score,
                                     good_items[f[i]].match_score)
                            \/ /\ good_items[f[i + 1]].match_score
                                      = good_items[f[i]].match_score
                               /\ f[i] < f[i + 1]
    IN  [i \in 1..n |-> good_items[order[i]]]

\* the messages after the loop: "nothing matched", or the five best items
Replies(good_items) ==
    IF good_items = <<>> THEN <<"nothing_matched">>
    ELSE LET sorted == SortedByScore(good_items)
         IN  [i \in 1..(IF Len(sorted) < 5 THEN Len(sorted) ELSE 5) |->
                 [vacancy |-> sorted[i].id, match_score |-> sorted[i].match_score]]

\* hh_resume on the message msg: what it returns or raises, the messages it
\* sends, the calls it makes, and the user_data and collection it leaves
hh_resume(ud, db, cap, msg, add_texts, search, o_r, o_v) ==
    LET texted == IF msg.kind = "document" THEN Str(msg.v)
                  ELSE IF Lower(Strip(msg.v)) = net_ru THEN None
                  ELSE Str(msg.v)
        ud1 == [ud EXCEPT !.resume = texted]
        indexes == msg.kind = "document" \/ Truthy(texted)
        idx == IF indexes THEN index_resume_if_needed(db, texted.v, ChatId, add_texts)
               ELSE [db |-> db, ret |-> None]
        sent1 == IF indexes THEN <<"resume_saved", "searching">> ELSE <<"searching">>
        Raised(exc, messages, log) ==
            [ret |-> exc, sent |-> messages, log |-> log, user_data |-> ud1, db |-> idx.db]
    IN  IF idx.ret.t = "raise" THEN {Raised(idx.ret, <<>>, <<>>)}
        ELSE IF ~(SearchKeys \subseteq ud1.filled)
        THEN {Raised([t |-> "raise", exc |-> "KeyError"], sent1, <<>>)}
        ELSE IF search.t = "raise" THEN {Raised(search, sent1, <<>>)}
        ELSE UNION {
               LET structured == [call |-> "parse_resume", ret |-> r]
               IN  IF r.t = "raise" THEN {Raised(r, sent1, <<structured>>)}
                   ELSE {IF loop.end.t = "raise"
                         THEN Raised(loop.end, sent1, <<structured>> \o loop.log)
                         ELSE [ret |-> [t |-> "return", v |-> "WAITING_FOR_RESUME"],
                               sent |-> sent1 \o Replies(loop.end.good_items),
                               log |-> <<structured>> \o loop.log,
                               user_data |-> ud1, db |-> idx.db] :
                            loop \in ScoreItems(search.items, 1, r.v,
                                                GetOr(ud1, "prefs", Str(<<>>)), cap, o_v,
                                                <<>>)} :
               r \in parse_resume(IF Truthy(ud1.resume) THEN ud1.resume.v ELSE <<>>,
                                  cap, o_r)}

InitBot ==
    /\ capability \in {"absent", "present"}
    /\ resume = NoResume
    /\ vacancy = NoVacancy
    /\ prefs_text = None
    /\ weights = None
    /\ embedded = [resume |-> "not_called", vacancy |-> "not_called"]
    /\ result = None
    /\ pc = "ready"
    /\ NoOtherCalls

\* a handler that returns next_state after sending messages
Handled(name, next_state, messages) ==
    /\ pc' = name
    /\ conv_state' = next_state
    /\ sent' = messages
    /\ handler_log' = <<>>
    /\ result' = [t |-> "return", v |-> next_state]
    /\ UNCHANGED <<capability, resume, vacancy, prefs_text, weights, embedded,
                   module_globals, parse_text, extraction, calls, sub_scores, store,
                   index_call>>

\* /start: the entry point of the conversation and its fallback in every state
start ==
    /\ Handled("start", "WAITING_FOR_RESUME", <<"menu">>)
    /\ entered_by' = "none"
    /\ UNCHANGED user_data

\* the four buttons of the menu
hh_auth ==
    /\ conv_state = "WAITING_FOR_RESUME"
    /\ \E next_state \in {"WAITING_FOR_RESUME", "WAITING_FOR_HH_AUTH_CODE"} :
           Handled("hh_auth", next_state, <<"authorisation">>)
    /\ UNCHANGED <<user_data, entered_by>>

upload_resume ==
    /\ conv_state = "WAITING_FOR_RESUME"
    /\ Handled("upload_resume", "WAITING_FOR_RESUME", <<"send_resume">>)
    /\ UNCHANGED <<user_data, entered_by>>

search_vacancies_handler ==
    /\ conv_state = "WAITING_FOR_RESUME"
    /\ Handled("search_vacancies_handler", "KEYWORDS", <<"ask_keywords">>)
    /\ entered_by' = "search_vacancies"
    /\ UNCHANGED user_data

auto_apply_handler ==
    /\ conv_state = "WAITING_FOR_RESUME"
    /\ Handled("auto_apply_handler", "KEYWORDS", <<"ask_keywords">>)
    /\ user_data' = [user_data EXCEPT !.is_auto_apply = TRUE]
    /\ entered_by' = "auto_apply"

handle_auth_code ==
    /\ conv_state = "WAITING_FOR_HH_AUTH_CODE"
    /\ Handled("handle_auth_code", "WAITING_FOR_RESUME", <<"authorisation">>)
    /\ UNCHANGED <<user_data, entered_by>>

\* the questions of the dialogue
hh_keywords ==
    /\ conv_state = "KEYWORDS"
    /\ Handled("hh_keywords", "EXPERIENCE", <<"ask_experience">>)
    /\ user_data' = [user_data EXCEPT !.filled = @ \cup {"keywords"}]
    /\ UNCHANGED entered_by

hh_experience ==
    /\ conv_state = "EXPERIENCE"
    /\ Handled("hh_experience", "EMPLOYMENT", <<"ask_employment">>)
    /\ user_data' = [user_data EXCEPT !.filled = @ \cup {"experience"}]
    /\ UNCHANGED entered_by

hh_employment ==
    /\ conv_state = "EMPLOYMENT"
    /\ Handled("hh_employment", "SCHEDULE", <<"ask_schedule">>)
    /\ user_data' = [user_data EXCEPT !.filled = @ \cup {"employment"}]
    /\ UNCHANGED entered_by

hh_schedule ==
    /\ conv_state = "SCHEDULE"
    /\ Handled("hh_schedule", "SALARY", <<"ask_salary">>)
    /\ user_data' = [user_data EXCEPT !.filled = @ \cup {"schedule"}]
    /\ UNCHANGED entered_by

hh_salary ==
    /\ conv_state = "SALARY"
    /\ Handled("hh_salary", "PREFS", <<"ask_prefs">>)
    /\ UNCHANGED <<user_data, entered_by>>

\* the preferences are stored and the dialogue goes on to the cover letter of
\* the auto-apply or to the resume
hh_prefs ==
    /\ conv_state = "PREFS"
    /\ \E txt \in {net_ru, ne_hochu_frontend} :
           user_data' = [user_data EXCEPT !.prefs = Str(Strip(txt))]
    /\ IF user_data.is_auto_apply
       THEN Handled("hh_prefs", "WAITING_FOR_AUTO_APPLY_COVER", <<"ask_cover_letter">>)
       ELSE Handled("hh_prefs", "RESUME", <<"ask_resume">>)
    /\ UNCHANGED entered_by

handle_auto_apply_cover ==
    /\ conv_state = "WAITING_FOR_AUTO_APPLY_COVER"
    /\ Handled("handle_auto_apply_cover", "WAITING_FOR_AUTO_APPLY_COUNT", <<"ask_count">>)
    /\ UNCHANGED <<user_data, entered_by>>

\* a count outside the offered ones is asked again; otherwise the auto-apply is
\* set up, with or without success, and the conversation ends
handle_auto_apply_count ==
    /\ conv_state = "WAITING_FOR_AUTO_APPLY_COUNT"
    /\ \/ /\ Handled("handle_auto_apply_count", "WAITING_FOR_AUTO_APPLY_COUNT",
                     <<"ask_count">>)
          /\ UNCHANGED entered_by
       \/ /\ \E success \in BOOLEAN :
                 Handled("handle_auto_apply_count", "END",
                         <<IF success THEN "auto_apply_set" ELSE "auto_apply_failed">>)
          /\ entered_by' = "none"
    /\ UNCHANGED user_data

\* hh_resume, for a message in the menu state or as the last answer of the
\* dialogue; when it raises, the state of the conversation stays and the error
\* handler of run_bot answers
hh_resume_handler ==
    /\ conv_state \in {"WAITING_FOR_RESUME", "RESUME"}
    /\ \E msg \in ResumeMessages, add_texts \in {"ok", "raise"}, search \in SearchAnswers,
          o_r, o_v \in BotExtraction(capability) :
           \E out \in hh_resume(user_data, store, capability, msg, add_texts, search,
                                o_r, o_v) :
               /\ result' = out.ret
               /\ conv_state' = IF out.ret.t = "return" THEN out.ret.v ELSE conv_state
               /\ sent' = IF out.ret.t = "return" THEN out.sent
                          ELSE out.sent \o <<"error">>
               /\ handler_log' = out.log
               /\ user_data' = out.user_data
               /\ store' = out.db
    /\ pc' = "hh_resume"
    /\ UNCHANGED <<capability, resume, vacancy, prefs_text, weights, embedded,
                   module_globals, parse_text, extraction, calls, sub_scores, index_call,
                   entered_by>>

NextBot ==
    \/ start
    \/ hh_auth
    \/ upload_resume
    \/ search_vacancies_handler
    \/ auto_apply_handler
    \/ handle_auth_code
    \/ hh_keywords
    \/ hh_experience
    \/ hh_employment
    \/ hh_schedule
    \/ hh_salary
    \/ hh_prefs
    \/ handle_auto_apply_cover
    \/ handle_auto_apply_count
    \/ hh_resume_handler

SpecBot == InitBot /\ [][NextBot]_vars

----------------------------------------------------------------------------
(* Properties: vocabulary *)

SkillDone == pc = "_skill_score"
MatchDone == pc = "match_resume_to_vacancy" /\ result.t = "return"

ResumeList == resume.skills.v
VacancyList == vacancy.skills_required.v
ResumeSet == LowerSet(ResumeList)
VacancySet == LowerSet(VacancyList)
BothNonEmpty == ResumeList # <<>> /\ VacancyList # <<>>

\* the literal and the semantic ratio of the call that was made
LiteralOfCall ==
    Rat(Cardinality({v \in VacancySet : v \in ResumeSet}), Cardinality(VacancySet))

SemanticOfCall ==
    CosineOf(_embed_skills(ResumeList, capability, embedded.resume),
             _embed_skills(VacancyList, capability, embedded.vacancy))

\* the skill score before rounding
ExactSkillScore ==
    IF BothNonEmpty
    THEN IF RLess(LiteralOfCall, SemanticOfCall) THEN SemanticOfCall ELSE LiteralOfCall
    ELSE Zero

RSub(p, q) == RAdd(p, <<-q[1], q[2]>>)
RAbs(p) == <<Abs(p[1]), p[2]>>
Flag(b) == IF b THEN One ELSE Zero

\* x is q rounded to 3 decimals: a multiple of 1/1000 at most 1/2000 away
IsRounded3(x, q) == 1000 % x[2] = 0 /\ RLeq(RAbs(RSub(x, q)), <<1, 2000>>)

DefaultTable ==
    [skills |-> <<3, 5>>, experience |-> <<3, 20>>, schedule |-> <<3, 20>>,
     prefs |-> <<1, 10>>]

\* the table the claim says is used
ClaimedWeights == IF weights \in {None, EmptyDict} THEN DefaultTable ELSE weights.v

WeightSum(w) == RAdd(RAdd(w.skills, w.experience), RAdd(w.schedule, w.prefs))

NonNegative(w) ==
    /\ RLeq(Zero, w.skills) /\ RLeq(Zero, w.experience)
    /\ RLeq(Zero, w.schedule) /\ RLeq(Zero, w.prefs)

----------------------------------------------------------------------------
(* Properties of match_resume_to_vacancy: scenario 1 *)

\* resume {python, sql}, vacancy {python, sql, docker}, no experience level, no
\* schedule on either side, empty preferences, default weights
Scenario1 ==
    /\ MatchDone
    /\ ResumeList = <<python, sql>>
    /\ VacancyList = <<python, sql, docker>>
    /\ ~Truthy(Get(vacancy, "experience_level"))
    /\ ~Truthy(Get(resume, "preferred_schedule"))
    /\ ~Truthy(Get(vacancy, "schedule"))
    /\ ~Truthy(prefs_text)
    /\ weights = None

\* C1 as stated: in scenario 1 the three sub-scores are 1.0, skills_score is at
\* least 0.667 and the final score is 0.80.
C1_FinalIsFourFifths ==
    Scenario1 =>
        /\ result.experience_ok /\ result.schedule_ok /\ result.prefs_ok
        /\ RLeq(<<667, 1000>>, result.skills_score)
        /\ result.score = <<4, 5>>

\* C1 amended: in scenario 1 the three sub-scores are 1.0, skills_score is at
\* least 0.667 and the final score is at least 0.80; it is 0.80 whenever the
\* semantic ratio does not exceed the literal ratio 2/3, and it is 1.0 whenever
\* the embedding capability is not configured or both embed calls fail.
C1_Scenario1 ==
    Scenario1 =>
        /\ result.experience_ok /\ result.schedule_ok /\ result.prefs_ok
        /\ RLeq(<<667, 1000>>, result.skills_score)
        /\ RLeq(<<4, 5>>, result.score)
        /\ RLeq(SemanticOfCall, <<2, 3>>) => result.score = <<4, 5>>
        /\ (\/ capability = "absent"
            \/ embedded.resume = "raise" /\ embedded.vacancy = "raise") =>
               result.score = One

C1_Witness ==
    /\ Scenario1
    /\ capability = "present"
    /\ SemanticOfCall = <<3, 5>>
    /\ result.score = <<4, 5>>

----------------------------------------------------------------------------
(* Properties of _skill_score *)

\* C2: for two non-empty skill lists the score is max(literal ratio, semantic
\* ratio), the literal ratio being the number of case-folded vacancy skills
\* found among the case-folded resume skills over the number of distinct
\* case-folded vacancy skills.
C2_ScoreIsMaxOfRatios ==
    (SkillDone /\ BothNonEmpty) =>
        /\ RLeq(LiteralOfCall, result.score)
        /\ RLeq(SemanticOfCall, result.score)
        /\ result.score \in {LiteralOfCall, SemanticOfCall}

\* a vacancy list that repeats a skill in another case, half of it matched, and
\* a semantic ratio below the literal one
C2_Witness ==
    /\ SkillDone /\ BothNonEmpty
    /\ Len(VacancyList) > Cardinality(VacancySet)
    /\ RLess(SemanticOfCall, LiteralOfCall)
    /\ result.score = One

\* C3: if either skill list is empty the result is score 0.0, an empty matched
\* list and the vacancy's list unchanged as missing.
C3_EmptyListScoresZero ==
    (SkillDone /\ ~BothNonEmpty) =>
        /\ result.score = Zero
        /\ result.matched = List(<<>>)
        /\ result.missing = vacancy.skills_required
        /\ VacancyList = <<>> => result.missing.v = <<>>

C3_Witness ==
    /\ SkillDone
    /\ ResumeList = <<>>
    /\ VacancyList = <<Python, python>>
    /\ result.missing.v = <<Python, python>>

\* C4: for non-empty lists the score lies in [0,1], and it is 1.0 when the two
\* case-folded sets are identical. (It fails: the rounded root of a norm can
\* make the cosine of two parallel vectors exceed 1.)
C4_ScoreInUnitInterval ==
    (SkillDone /\ BothNonEmpty) =>
        /\ RLeq(Zero, result.score)
        /\ RLeq(result.score, One)
        /\ ResumeSet = VacancySet => result.score = One

\* what C5 says of matched and missing
MatchedMissingPartition ==
    LET matched == Range(result.matched.v)
        missing == Range(result.missing.v)
    IN  /\ matched = ResumeSet \cap VacancySet
        /\ missing = VacancySet \ matched
        /\ matched \cap missing = {}
        /\ matched \cup missing = VacancySet

\* C5 as stated: in every result matched is the intersection of the case-folded
\* sets and missing the case-folded vacancy set minus matched.
C5_PartitionInEveryResult == SkillDone => MatchedMissingPartition

\* C5 amended: in every result for two non-empty skill lists matched is the
\* intersection of the case-folded sets and missing the case-folded vacancy set
\* minus matched, each listed once (with an empty list missing is the vacancy's
\* list as given, not case-folded).
C5_PartitionWhenNonEmpty ==
    (SkillDone /\ BothNonEmpty) =>
        /\ MatchedMissingPartition
        /\ Len(result.matched.v) = Cardinality(Range(result.matched.v))
        /\ Len(result.missing.v) = Cardinality(Range(result.missing.v))

C5_Witness ==
    /\ SkillDone
    /\ ResumeList = <<Python, docker>>
    /\ VacancyList = <<python, sql>>
    /\ result.matched.v = <<python>>
    /\ result.missing.v = <<sql>>

\* C6: when the capability is not configured, or both embed calls fail, both
\* non-empty lists are embedded as the flat vector, the semantic ratio is 1.0
\* and the score is 1.0 whatever the overlap.
C6_FallbackScoresOne ==
    (/\ SkillDone /\ BothNonEmpty
     /\ \/ capability = "absent"
        \/ embedded.resume = "raise" /\ embedded.vacancy = "raise") =>
        /\ _embed_skills(ResumeList, capability, embedded.resume) = FlatVector
        /\ _embed_skills(VacancyList, capability, embedded.vacancy) = FlatVector
        /\ FlatVector[1] = 1 /\ FlatVector[EMBEDDING_DIM] = 1
        /\ SemanticOfCall = One
        /\ result.score = One

\* disjoint skill sets scored 1.0
C6_Witness ==
    /\ SkillDone /\ BothNonEmpty
    /\ capability = "absent"
    /\ ResumeSet \cap VacancySet = {}
    /\ result.score = One

----------------------------------------------------------------------------
(* Properties of match_resume_to_vacancy: the final score *)

\* the weighted sum the claims speak of, from the sub-scores of the result
ClaimedSum(w) ==
    RAdd(RAdd(RMul(ExactSkillScore, w.skills),
              RMul(Flag(result.experience_ok), w.experience)),
         RAdd(RMul(Flag(result.schedule_ok), w.schedule),
              RMul(Flag(result.prefs_ok), w.prefs)))

\* C7: the final score is the weighted sum of the four sub-scores rounded to 3
\* decimals, under the default table when no weights are supplied and under
\* the supplied table as given otherwise.
C7_FinalIsRoundedWeightedSum ==
    MatchDone => IsRounded3(result.score, ClaimedSum(ClaimedWeights))

\* a table of four weights of 1.0, not normalised: a final score of 4.0
C7_Witness ==
    /\ MatchDone
    /\ weights \notin {None, EmptyDict}
    /\ WeightSum(weights.v) = <<4, 1>>
    /\ result.score = <<4, 1>>

\* C8 as stated: the final score is in [0,1] whenever the weights sum to 1.0.
C8_UnitIntervalWhenSumIsOne ==
    (MatchDone /\ WeightSum(ClaimedWeights) = One) =>
        RLeq(Zero, result.score) /\ RLeq(result.score, One)

\* C8 amended: the final score is in [0,1] whenever the weights are
\* non-negative and sum to 1.0 (in particular with the default weights).
C8_UnitIntervalWhenNonNegative ==
    (MatchDone /\ WeightSum(ClaimedWeights) = One /\ NonNegative(ClaimedWeights)) =>
        RLeq(Zero, result.score) /\ RLeq(result.score, One)

\* a supplied table that sums to 1.0, and a score strictly inside the interval
C8_Witness ==
    /\ MatchDone
    /\ weights \notin {None, EmptyDict}
    /\ WeightSum(weights.v) = One /\ NonNegative(weights.v)
    /\ RLess(Zero, result.score) /\ RLess(result.score, One)

----------------------------------------------------------------------------
(* Properties of match_resume_to_vacancy: experience *)

LevelOfVacancy == Get(vacancy, "experience_level")
YearsOfResume == Get(resume, "experience_years")

\* the bands as the claim gives them: moreThan6 has no upper limit
InClaimedBand(lvl, years) ==
    \/ lvl = noExperience /\ years = 0
    \/ lvl = between1And3 /\ 1 <= years /\ years <= 3
    \/ lvl = between3And6 /\ 3 <= years /\ years <= 6
    \/ lvl = moreThan6 /\ 6 <= years

\* C9: with a declared band and known years the experience sub-score is 1.0
\* exactly when the years lie in the band's inclusive range, moreThan6 being
\* [6, infinity).
C9_ScoreFollowsBand ==
    (/\ MatchDone
     /\ LevelOfVacancy.t = "str"
     /\ LevelOfVacancy.v \in {noExperience, between1And3, between3And6, moreThan6}
     /\ YearsOfResume.t = "num") =>
        (result.experience_ok <=> InClaimedBand(LevelOfVacancy.v, YearsOfResume.v))

\* C10: the experience sub-score is 1.0 whenever the vacancy declares no
\* experience level and whenever the resume's experience_years is unknown.
C10_LenientExperience ==
    (/\ MatchDone
     /\ \/ ~Truthy(LevelOfVacancy)
        \/ YearsOfResume.t = "none") =>
        /\ result.experience_ok
        /\ IsRounded3(result.score,
                      RAdd(ClaimedSum([ClaimedWeights EXCEPT !.experience = Zero]),
                           ClaimedWeights.experience))

\* unknown years against the 6+ band
C10_Witness ==
    /\ MatchDone
    /\ LevelOfVacancy = Str(moreThan6)
    /\ YearsOfResume.t = "none"
    /\ result.experience_ok

\* C11: zero years is a known value: it passes the noExperience band and fails
\* the three other bands, while absent or None years pass all four.
C11_ZeroYearsIsKnown ==
    (/\ MatchDone
     /\ LevelOfVacancy.t = "str"
     /\ LevelOfVacancy.v \in {noExperience, between1And3, between3And6, moreThan6}) =>
        /\ YearsOfResume = Num(0) =>
               (result.experience_ok <=> LevelOfVacancy.v = noExperience)
        /\ YearsOfResume = None => result.experience_ok
        /\ result.score =
               Round3(FinalScore(ClaimedWeights, ExactSkillScore,
                                 Flag(result.experience_ok), One, One))

\* zero years against the 1-3 band: the experience sub-score is 0.0
C11_Witness ==
    /\ MatchDone
    /\ YearsOfResume = Num(0)
    /\ LevelOfVacancy = Str(between1And3)
    /\ ~result.experience_ok

----------------------------------------------------------------------------
(* Properties of match_resume_to_vacancy: schedule *)

PreferredOfResume == Get(resume, "preferred_schedule")
ScheduleOfVacancy == Get(vacancy, "schedule")

\* a schedule is known when the field holds a non-empty string
KnownSchedule(x) == x.t = "str" /\ x.v # <<>>

\* C12: the schedule sub-score is 0.0 exactly when both schedules are known and
\* differ, and 1.0 in every other case.
C12_ScheduleMismatchOnly ==
    MatchDone =>
        /\ ~result.schedule_ok <=>
               /\ KnownSchedule(PreferredOfResume)
               /\ KnownSchedule(ScheduleOfVacancy)
               /\ PreferredOfResume.v # ScheduleOfVacancy.v
        /\ result.score =
               Round3(FinalScore(ClaimedWeights, ExactSkillScore, One,
                                 Flag(result.schedule_ok), One))

\* two known schedules that differ only in case: the sub-score is 0.0
C12_Witness ==
    /\ MatchDone
    /\ PreferredOfResume = Str(Remote)
    /\ ScheduleOfVacancy = Str(remote)
    /\ ~result.schedule_ok

----------------------------------------------------------------------------
(* Properties of _evaluate_prefs *)

PrefsDone == pc = "_evaluate_prefs"

\* the text is empty or is a sentinel once trimmed and case-folded
IsSentinel(p) == p = <<>> \/ Lower(Strip(p)) \in {net_ru, none_en, no_en}

\* the negative keywords of the call that occur in the vacancy of the call
ExpectedViolations ==
    LET skills == GetOr(vacancy, "skills_required", List(<<>>)).v
        raw == GetOr(vacancy, "raw_text", Str(<<>>)).v
    IN  {kw \in NegKeywords(Lower(prefs_text.v)) :
            \/ \E i \in DOMAIN skills : Lower(skills[i]) = kw
            \/ Contains(Lower(raw), kw)}

\* C13: empty or sentinel preferences give (1.0, []) for every vacancy and raw
\* text.
C13_SentinelGivesNoConstraint ==
    (PrefsDone /\ IsSentinel(prefs_text.v)) =>
        result = [t |-> "return", score |-> One, violations |-> <<>>]

\* the sentinel "net" padded with blanks and capitalised, against a vacancy
\* whose skills_required is None and whose raw text names the frontend
C13_Witness ==
    /\ PrefsDone
    /\ prefs_text = Str(net_padded)
    /\ vacancy.skills_required = None
    /\ vacancy.raw_text = Str(Frontend_developer)
    /\ result.t = "return" /\ result.score = One /\ result.violations = <<>>

\* C14: for non-sentinel preferences the violations are exactly the negative
\* keywords found in the case-folded required skills or inside the case-folded
\* raw text, each once, and the score is 0.0 iff there is one, 1.0 otherwise.
C14_ViolationsAreTheKeywordsFound ==
    (PrefsDone /\ ~IsSentinel(prefs_text.v) /\ result.t = "return") =>
        /\ Range(result.violations) = ExpectedViolations
        /\ Len(result.violations) = Cardinality(ExpectedViolations)
        /\ result.score = Zero <=> result.violations # <<>>
        /\ result.score = One <=> result.violations = <<>>

\* "bez sql, docker" against required skills without sql and a raw text "MySQL
\* admin": sql is found inside the raw text only, docker after the comma is no
\* keyword
C14_Witness ==
    /\ PrefsDone
    /\ prefs_text = Str(bez_sql_comma_docker)
    /\ vacancy.skills_required = List(<<front_end_underscore, docker>>)
    /\ vacancy.raw_text = Str(MySQL_admin)
    /\ result.t = "return" /\ result.score = Zero /\ result.violations = <<sql>>

----------------------------------------------------------------------------
(* Properties of scenario 2 *)

FrontendVariants == {frontend_ru, frontend, front_end_hyphen, front_end_underscore}

ReturnedBy(i) == calls[i].at = "done" /\ calls[i].result.t = "return"

SkillsRequiredOf(i) == calls[i].vacancy.skills_required.v

\* calls i and j were given vacancies that differ in the skill "frontend" only,
\* required by the vacancy of i
Scenario2(i, j) ==
    /\ prefs_text = Str(ne_hochu_frontend)
    /\ weights = None
    /\ ReturnedBy(i) /\ ReturnedBy(j)
    /\ frontend \notin Range(SkillsRequiredOf(j))
    /\ SkillsRequiredOf(i) = Append(SkillsRequiredOf(j), frontend)
    /\ calls[i].vacancy = [calls[j].vacancy EXCEPT !.skills_required = calls[i].vacancy.skills_required]

\* both lists of call i were embedded as the flat fallback vector
FallbackOnly(i) ==
    \/ capability = "absent"
    \/ calls[i].answers = [resume |-> "raise", vacancy |-> "raise"]

\* C15 as stated: in scenario 2 pref_violations holds a frontend variant, the
\* preference sub-score is 0.0 and the final score is exactly 0.10 lower than
\* that of the same vacancy without the skill.
C15_TenthLower ==
    \A i, j \in DOMAIN calls :
        Scenario2(i, j) =>
            /\ Range(calls[i].result.pref_violations) \cap FrontendVariants # {}
            /\ ~calls[i].result.prefs_ok
            /\ calls[i].result.score = RSub(calls[j].result.score, <<1, 10>>)

\* C15 amended: in scenario 2 pref_violations holds a frontend variant and the
\* preference sub-score is 0.0; the final score is exactly 0.10 lower than that
\* of the same vacancy without the skill when that vacancy raises no violation
\* and the skill lists of both calls were embedded as the fallback vector.
C15_TenthLowerOnFallback ==
    \A i, j \in DOMAIN calls :
        Scenario2(i, j) =>
            /\ Range(calls[i].result.pref_violations) \cap FrontendVariants # {}
            /\ ~calls[i].result.prefs_ok
            /\ (calls[j].result.prefs_ok /\ FallbackOnly(i) /\ FallbackOnly(j)) =>
                   calls[i].result.score = RSub(calls[j].result.score, <<1, 10>>)

\* both embed calls of both calls failed: 0.9 against 1.0
C15_Witness ==
    \E i, j \in DOMAIN calls :
        /\ Scenario2(i, j)
        /\ capability = "present" /\ FallbackOnly(i) /\ FallbackOnly(j)
        /\ calls[j].result.prefs_ok
        /\ calls[i].result.pref_violations = <<frontend>>
        /\ calls[i].result.score = <<9, 10>>
        /\ calls[j].result.score = One

----------------------------------------------------------------------------
(* Properties of match_resume_to_vacancy: absent data *)

MatchResultKeys ==
    {"score", "skills_score", "experience_ok", "schedule_ok", "prefs_ok",
     "matched_skills", "missing_skills", "pref_violations"}

\* C16: with optional data missing, None or empty and preferences None or
\* empty, match_resume_to_vacancy raises nothing and returns a result that has
\* all eight keys.
C16_NoRaiseOnAbsentData ==
    (pc = "match_resume_to_vacancy" /\ ~Truthy(prefs_text)) =>
        /\ result.t = "return"
        /\ MatchResultKeys \subseteq DOMAIN result
        /\ result.experience_ok /\ result.schedule_ok /\ result.prefs_ok
        /\ result.matched_skills.t = "list"
        /\ result.pref_violations = <<>>

\* every optional field None, the two skill lists included: the result has the
\* eight keys, score 0.4, and missing_skills is the vacancy's None
C16_Witness ==
    /\ pc = "match_resume_to_vacancy"
    /\ prefs_text = None
    /\ resume = [skills |-> None, experience_years |-> None,
                 preferred_schedule |-> None, preferences_raw |-> Missing]
    /\ vacancy = [skills_required |-> None, experience_level |-> None,
                  schedule |-> None, salary |-> None, raw_text |-> None]
    /\ result.t = "return"
    /\ result.score = <<2, 5>>
    /\ result.missing_skills = None

----------------------------------------------------------------------------
(* Properties of parse_resume and parse_vacancy *)

ParseDone == pc \in {"parse_resume", "parse_vacancy"}

\* the capability is unavailable, raises, or answers with something that is no
\* object of the schema
ExtractionFailed ==
    extraction \in {"unavailable", "construct_raises", "invoke_raises",
                    "no_function_call", "invalid_json", "json_null", "json_array"}

\* the fallback records of the call that was made
FallbackOfCall ==
    IF pc = "parse_resume" THEN FallbackResume(parse_text.v)
    ELSE FallbackVacancy(parse_text.v)

SkillsKeyOfCall == IF pc = "parse_resume" THEN "skills" ELSE "skills_required"

\* C17: whenever the extraction capability is unavailable, raises (at
\* construction or at invocation) or answers with a malformed response, the
\* parse call raises nothing and returns the fallback record: skills from the
\* token heuristic, every other field None or empty.
C17_ParseNeverRaises ==
    (ParseDone /\ ExtractionFailed) =>
        /\ result.t = "return"
        /\ result.v \in FallbackOfCall

\* C18: every record returned by parse_resume has a skills field and every
\* record returned by parse_vacancy a skills_required field, whatever the
\* capability answered.
C18_SkillsAlwaysPresent ==
    (ParseDone /\ result.t = "return" /\ SkillsKeyOfCall \in DOMAIN result.v) =>
        result.v[SkillsKeyOfCall].t # "missing"

----------------------------------------------------------------------------
(* Frame of match_resume_to_vacancy *)

\* C19: a call of match_resume_to_vacancy leaves the resume record, the vacancy
\* record with its skill list, the preferences text, the weights table passed
\* in, the module-level WEIGHTS table and the trigger-phrase tuple as they were
\* before the call.
C19_InputsUnchanged ==
    [][pc' = "match_resume_to_vacancy" =>
          /\ resume' = resume
          /\ vacancy' = vacancy
          /\ prefs_text' = prefs_text
          /\ weights' = weights
          /\ module_globals' = module_globals
          /\ module_globals'.WEIGHTS = WEIGHTS
          /\ module_globals'._NEGATIVE_TRIGGERS = _NEGATIVE_TRIGGERS]_vars

\* after a call with a supplied weights table, the vacancy still requires
\* "Python" as written while the result lists the case-folded "python"
C19_Witness ==
    /\ MatchDone
    /\ weights \notin {None, EmptyDict}
    /\ VacancyList = <<Python>>
    /\ ResumeList = <<python, sql>>
    /\ result.matched_skills = List(<<python>>)
    /\ module_globals = ModuleGlobals

----------------------------------------------------------------------------
(* Interleaved calls *)

\* what call i can return when it runs alone and the endpoint gives it the
\* answers it was given here
AloneResults(i) ==
    match_resume_to_vacancy(resume, calls[i].vacancy, prefs_text, weights, capability,
                            calls[i].answers.resume, calls[i].answers.vacancy)

\* C20: in every interleaving of the calls at their embed_query suspension
\* points, a call that has returned has the result it returns when run alone.
C20_InterleavingKeepsResults ==
    \A i \in DOMAIN calls :
        calls[i].at = "done" =>
            /\ calls[i].result \in AloneResults(i)
            /\ calls[i].result.t = "return"

\* a call that was answered twice has returned 0.9 while another call, whose
\* first embed_query failed, is still suspended in its second one
C20_Witness ==
    \E i, j \in DOMAIN calls :
        /\ calls[i].at = "done"
        /\ calls[i].answers = [resume |-> "e10", vacancy |-> "e10"]
        /\ calls[i].result.score = <<9, 10>>
        /\ calls[j].at = "embed_vacancy"
        /\ calls[j].answers.resume = "raise"

----------------------------------------------------------------------------
(* Monotonicity of the final score *)

SubScoreNames == {"skills", "experience", "schedule", "prefs"}

\* run 2 has sub-score k at least as high as run 1 and the other three equal
RaisedIn(k) ==
    /\ RLeq(sub_scores[1][k], sub_scores[2][k])
    /\ \A n \in SubScoreNames \ {k} : sub_scores[1][n] = sub_scores[2][n]

BothFinal == pc = "final" /\ result[1] # None /\ result[2] # None

\* C21: with non-negative weights, a run whose one sub-score is higher than
\* another run's, the other three being equal, has a final score at least as
\* high.
C21_FinalIsMonotone ==
    (BothFinal /\ NonNegative(EffectiveWeights(weights))) =>
        \A k \in SubScoreNames : RaisedIn(k) => RLeq(result[1], result[2])

\* the prefs sub-score raised from 0.0 to 1.0 under the default weights: the
\* final score goes from 0.7 to 0.8
C21_Witness ==
    /\ BothFinal
    /\ weights = None
    /\ sub_scores[1] = [skills |-> Rat(2, 3), experience |-> One, schedule |-> One,
                        prefs |-> Zero]
    /\ sub_scores[2] = [sub_scores[1] EXCEPT !.prefs = One]
    /\ result = <<Rat(7, 10), Rat(8, 10)>>

----------------------------------------------------------------------------
(* Determinism of the preference detection *)

\* what a second run of _evaluate_prefs on the same three arguments can return
Rerun ==
    _evaluate_prefs(prefs_text.v, vacancy, GetOr(vacancy, "raw_text", Str(<<>>)))

\* C22: a second run of _evaluate_prefs on the same preferences text, vacancy
\* and raw text ends as the first did, and when it returns, with the same score
\* and the same set of violations.
C22_RerunGivesSameAnswer ==
    PrefsDone =>
        \A again \in Rerun :
            /\ again.t = result.t
            /\ again.t = "return" =>
                   /\ again.score = result.score
                   /\ Range(again.violations) = Range(result.violations)

\* a run that reported two violations, which a second run can list in the
\* other order
C22_Witness ==
    /\ PrefsDone
    /\ result.t = "return"
    /\ result.violations = <<frontend, front_end_underscore>>
    /\ \E again \in Rerun : again.violations = <<front_end_underscore, frontend>>

----------------------------------------------------------------------------
(* The words taken after a trigger *)

\* the part of a captured group that comes before its first period
UpToPeriod(group) ==
    LET periods == {i \in DOMAIN group : group[i] = 46}
    IN  IF periods = {} THEN group
        ELSE SubSeq(group, 1, (CHOOSE i \in periods : \A j \in periods : i <= j) - 1)

\* the negative keywords when a capture ends at the first comma or period
KeywordsUpToPunctuation(lowered_prefs) ==
    LET from_triggers ==
            UNION {UNION {{token \in SplitSet(UpToPeriod(match)) : Len(token) >= 3} :
                             match \in FindAll(lowered_prefs, trig, 1)} :
                      trig \in {t \in _NEGATIVE_TRIGGERS : Contains(lowered_prefs, t)}}
        frontend_words ==
            IF Contains(lowered_prefs, frontend_ru) \/ Contains(lowered_prefs, frontend)
            THEN {frontend_ru, frontend, front_end_hyphen, front_end_underscore}
            ELSE {}
    IN  from_triggers \cup frontend_words

\* C23: the negative keywords are the words of length >= 3 that follow a
\* trigger up to the next comma or period, so the violations reported are those
\* of these words that occur in the vacancy; a word after the punctuation mark
\* is no keyword.
C23_KeywordsStopAtPunctuation ==
    (PrefsDone /\ ~IsSentinel(prefs_text.v) /\ result.t = "return") =>
        LET skills == GetOr(vacancy, "skills_required", List(<<>>)).v
            raw == GetOr(vacancy, "raw_text", Str(<<>>)).v
        IN  Range(result.violations) =
                {kw \in KeywordsUpToPunctuation(Lower(prefs_text.v)) :
                    \/ \E i \in DOMAIN skills : Lower(skills[i]) = kw
                    \/ Contains(Lower(raw), kw)}

----------------------------------------------------------------------------
(* The frontend words *)

\* the case-folded preferences of the call name the frontend
MentionsFrontend ==
    LET lowered_prefs == Lower(prefs_text.v)
    IN  Contains(lowered_prefs, frontend_ru) \/ Contains(lowered_prefs, frontend)

\* the variant spellings that are a required skill of the vacancy of the call,
\* case-folded, or occur in its case-folded raw text
VariantsInVacancy ==
    LET skills == GetOr(vacancy, "skills_required", List(<<>>))
        raw == GetOr(vacancy, "raw_text", Str(<<>>))
    IN  IF skills.t = "list" /\ raw.t = "str"
        THEN {kw \in FrontendVariants :
                 kw \in LowerSet(skills.v) \/ Contains(Lower(raw.v), kw)}
        ELSE {}

\* C24: when the case-folded preferences contain one of the two frontend words,
\* with or without a trigger before it, every variant spelling that is a
\* required skill of the vacancy or occurs in its raw text is reported as a
\* violation and the preference score is 0.0.
C24_FrontendMentionedAnywhere ==
    (PrefsDone /\ MentionsFrontend /\ VariantsInVacancy # {}) =>
        /\ result.t = "return"
        /\ result.score = Zero
        /\ VariantsInVacancy \subseteq Range(result.violations)

\* the preferences are the one word "frontend", no trigger before it, and the
\* vacancy requires front_end
C24_Witness ==
    /\ PrefsDone
    /\ prefs_text = Str(frontend)
    /\ vacancy.skills_required = List(<<front_end_underscore, docker>>)
    /\ vacancy.raw_text = Str(<<>>)
    /\ result = [t |-> "return", score |-> Zero, violations |-> <<front_end_underscore>>]

----------------------------------------------------------------------------
(* Properties of match_resume_to_vacancy: a level outside the table *)

\* C30: a vacancy whose experience_level is a non-empty string outside the four
\* bands gives the experience sub-score 1.0 whatever the resume's
\* experience_years.
C30_UnknownLevelIsLenient ==
    (/\ MatchDone
     /\ LevelOfVacancy.t = "str"
     /\ LevelOfVacancy.v # <<>>
     /\ LevelOfVacancy.v \notin {noExperience, between1And3, between3And6, moreThan6}) =>
        /\ result.experience_ok
        /\ result.score =
               Round3(FinalScore(ClaimedWeights, ExactSkillScore, One, One, One))

\* the level "senior" against a resume with zero years, which fails three of
\* the four bands
C30_Witness ==
    /\ MatchDone
    /\ LevelOfVacancy = Str(senior)
    /\ YearsOfResume = Num(0)
    /\ result.experience_ok

----------------------------------------------------------------------------
(* Preferences without a trigger *)

\* the case-folded preferences of the call contain a trigger phrase
MentionsTrigger == \E trig \in _NEGATIVE_TRIGGERS : Contains(Lower(prefs_text.v), trig)

\* skills_required is a list (or absent) and raw_text a str (or absent)
WellTypedVacancy ==
    /\ GetOr(vacancy, "skills_required", List(<<>>)).t = "list"
    /\ GetOr(vacancy, "raw_text", Str(<<>>)).t = "str"

----------------------------------------------------------------------------
(* Properties of the resume index *)

\* the entries of the store tagged with a resume id
EntriesOf(db, resume_id) == {i \in DOMAIN db : db[i].metadata.resume_id = resume_id}

\* no chunk of a resume id is stored twice
EachChunkOnce ==
    \A i, j \in DOMAIN store :
        (/\ store[i].metadata.resume_id = store[j].metadata.resume_id
         /\ store[i].metadata.chunk_ix = store[j].metadata.chunk_ix) => i = j

\* a call that returns: an id with entries in the store leaves the store as it
\* is, a new id gets one entry per chunk, each tagged with the id returned
IndexStepAddsOnce ==
    (pc' = "index_resume_if_needed" /\ index_call'.n = index_call.n + 1
        /\ result'.t = "return") =>
        LET resume_id == result'.v
            chunks == split_text(index_call'.resume_text)
        IN  /\ resume_id = _generate_resume_id(index_call'.resume_text, index_call'.user_id)
            /\ EntriesOf(store, resume_id) # {} => store' = store
            /\ EntriesOf(store, resume_id) = {} =>
                   /\ Len(store') = Len(store) + Len(chunks)
                   /\ SubSeq(store', 1, Len(store)) = store
                   /\ \A k \in 1..Len(chunks) :
                          /\ store'[Len(store) + k].text = chunks[k]
                          /\ store'[Len(store) + k].metadata.resume_id = resume_id

\* C27: after any sequence of index_resume_if_needed calls the chunks of each
\* resume id are stored at most once: a call whose id already has entries adds
\* nothing and returns that id, a call with a new id adds one entry per chunk,
\* all tagged with the id.
C27_ChunksStoredOnce == []EachChunkOnce /\ [][IndexStepAddsOnce]_vars

\* the second call of a user with a text that differs from the first only after
\* the preview: it returned the id of the first and the store still holds the one
\* chunk of the first text
C27_Witness ==
    /\ pc = "index_resume_if_needed"
    /\ index_call.n = 2
    /\ index_call.user_id = 1
    /\ index_call.resume_text = text_long_other_tail
    /\ result = [t |-> "return", v |-> _generate_resume_id(text_long, 1)]
    /\ Len(store) = 1
    /\ store[1].text = text_long

----------------------------------------------------------------------------
(* Properties of hh_resume *)

HhResumeDone == pc = "hh_resume"

\* the positions of the calls of a function in the log of the run
CallsOf(name) == {i \in DOMAIN handler_log : handler_log[i].call = name}

\* the scores of the match calls that returned, and the vacancies sent
ScoresReturned ==
    {handler_log[i].ret.score :
        i \in {j \in CallsOf("match_resume_to_vacancy") : handler_log[j].ret.t = "return"}}

VacanciesSent == {i \in DOMAIN sent : sent[i] \notin STRING}

\* C25: in a run of hh_resume that comes to score vacancies, every match call
\* yields a result; "nothing matched" is sent exactly when no score reaches
\* MATCH_THRESHOLD, otherwise at most 5 vacancies are sent, each with a score of
\* at least 0.5, in non-increasing order of score; and the handler returns
\* WAITING_FOR_RESUME.
C25_EveryVacancyScoredAndAnswered ==
    (HhResumeDone /\ CallsOf("match_resume_to_vacancy") # {}) =>
        /\ \A i \in CallsOf("match_resume_to_vacancy") : handler_log[i].ret.t = "return"
        /\ result = [t |-> "return", v |-> "WAITING_FOR_RESUME"]
        /\ conv_state = "WAITING_FOR_RESUME"
        /\ (\E i \in DOMAIN sent : sent[i] = "nothing_matched")
               <=> \A x \in ScoresReturned : RLess(x, MATCH_THRESHOLD)
        /\ Cardinality(VacanciesSent) <= 5
        /\ \A i \in VacanciesSent : RLeq(MATCH_THRESHOLD, sent[i].match_score)
        /\ \A i, j \in VacanciesSent :
               i < j => RLeq(sent[j].match_score, sent[i].match_score)

----------------------------------------------------------------------------
(* Properties of the dialogue *)

\* C29: hh_prefs goes to WAITING_FOR_AUTO_APPLY_COVER only in a dialogue opened
\* with the auto-apply button, and to RESUME in every dialogue opened with the
\* search-vacancies button, whatever dialogues came before in the chat.
C29_CoverOnlyAfterAutoApplyButton ==
    pc = "hh_prefs" =>
        /\ conv_state = "WAITING_FOR_AUTO_APPLY_COVER" => entered_by = "auto_apply"
        /\ entered_by = "search_vacancies" => conv_state = "RESUME"

====
